---- MODULE Spec2Model ----
(***************************************************************************)
(* Coverage Layer Aggregation Engine (coverageChartEngine.js).             *)
(*                                                                         *)
(* State machines over one set of variables:                               *)
(*   SpecColor  the process-wide colour-slot table (colorFromString) and   *)
(*              the page theme;                                            *)
(*   Spec       the chart cache: loaded slices, filters, hidden legend     *)
(*              sets, current view and the datasets handed to the chart.   *)
(*   SpecSetters  the same cache under every filter setter, the date range *)
(*              and the insurance program among them;                      *)
(*   SpecEntities  the cache under carrier and carrier-group selections;   *)
(*   SpecLegend  the cache under clicks on the synthetic legend entries;   *)
(*   SpecAsync  overlapping renderCoverageChart calls, each split at its   *)
(*              await, with setters in between;                            *)
(*   SpecLimitTypes  tables of every mix of limit types under the          *)
(*              limit-type, program and year-range setters;                *)
(*   SpecRows   loads over a wider catalogue of rows, in both row orders;  *)
(*   SpecSignals  loads of one policy under every combination of the cells *)
(*              the availability classifier reads;                         *)
(*   SpecYearly the yearly chart of CoverageChart/CoverageChart.js.        *)
(*                                                                         *)
(* Time.  The engine positions a slice on a continuous axis through        *)
(* msToYearAxisValue, a strictly increasing map of the millisecond clock   *)
(* that sends Jan 1 of year y to y - 0.5.  The model counts time in whole  *)
(* periods, YearLen periods per calendar year, and uses the period index   *)
(* itself as the axis value: period p of year y is y * YearLen + p, so     *)
(* year y occupies [y * YearLen, (y + 1) * YearLen).                       *)
(***************************************************************************)
EXTENDS Integers, Sequences, FiniteSets, TLC

VARIABLES
    colorSpecByKey,             \* _colorSpecByKey: normalized label -> slot
    theme,                      \* document.documentElement.dataset.theme
    chart,                      \* TRUE once a Chart instance exists
    currentView,
    allSlices,                  \* _cache.allSlices
    allXLabels,                 \* _cache.allXLabels
    slices,                     \* _cache.slices
    xLabels,                    \* _cache.xLabels
    quotaKeySet,                \* _cache.quotaKeySet
    source,                     \* the CSV tables the server holds
    filters,                    \* _cache.filters
    hiddenLegendCarriers,       \* _cache.hiddenLegendCarriers
    hiddenLegendCarrierGroups,  \* _cache.hiddenLegendCarrierGroups
    datasets,                   \* chart.data.datasets
    cachedPolicies,             \* the yearly chart (CoverageChart/CoverageChart.js): cachedPolicies
    yearlyView,                 \* the yearly chart: currentView
    activeChart,                \* the yearly chart: activeChart (labels, datasets, quota details)
    calls,                      \* renderCoverageChart calls: where each stands at its await
    instances                   \* the Chart objects the calls created, in creation order

colorVars == <<colorSpecByKey, theme>>

yearlyVars == <<cachedPolicies, yearlyView, activeChart>>

asyncVars == <<calls, instances>>

chartVars ==
    << chart, currentView, allSlices, allXLabels, slices, xLabels, quotaKeySet,
       source, filters, hiddenLegendCarriers, hiddenLegendCarrierGroups, datasets,
       yearlyVars, asyncVars >>

vars == <<colorSpecByKey, theme, chartVars>>

(***************************************************************************)
(* Strings are sequences of character codes, so that trimming, lower-      *)
(* casing and hashing act on what the label really contains.               *)
(***************************************************************************)
SpaceCode == 32

BlankKey == <<40, 98, 108, 97, 110, 107, 41>>   \* "(blank)"

ToLowerCode(c) == IF c >= 65 /\ c <= 90 THEN c + 32 ELSE c

RECURSIVE TrimLeft(_)
TrimLeft(s) ==
    IF s # <<>> /\ Head(s) = SpaceCode THEN TrimLeft(Tail(s)) ELSE s

RECURSIVE TrimRight(_)
TrimRight(s) ==
    IF s # <<>> /\ s[Len(s)] = SpaceCode
    THEN TrimRight(SubSeq(s, 1, Len(s) - 1))
    ELSE s

\* String(str ?? "").trim().toLowerCase() || "(blank)"
NormalizeLabel(raw) ==
    LET t == TrimRight(TrimLeft(raw))
        l == [i \in 1..Len(t) |-> ToLowerCode(t[i])]
    IN  IF l = <<>> THEN BlankKey ELSE l

(***************************************************************************)
(* hashString: 32-bit FNV-1a.  A hash is kept as two 16-bit halves         *)
(* <<hi, lo>> so that no intermediate product leaves the integer range;    *)
(* Math.imul(hash, 16777619) >>> 0 is the product modulo 2^32 and          *)
(* 16777619 = 2^24 + 403.                                                  *)
(***************************************************************************)
Half == 65536

FnvOffsetHi == 33052      \* 2166136261 = 33052 * 65536 + 40389

FnvOffsetLo == 40389

FnvPrimeLo == 403         \* 16777619 = 2^24 + 403

RECURSIVE BitXor(_, _)
BitXor(a, b) ==
    IF a = 0 THEN b
    ELSE IF b = 0 THEN a
    ELSE (((a % 2) + (b % 2)) % 2) + 2 * BitXor(a \div 2, b \div 2)

\* hash ^= code; hash = Math.imul(hash, 16777619) >>> 0
HashStep(h, code) ==
    LET lo  == BitXor(h[2], code)
        hi  == h[1]
        pl  == lo * FnvPrimeLo
        nlo == pl % Half
        nhi == ((hi * FnvPrimeLo) + (pl \div Half) + ((lo % 256) * 256)) % Half
    IN  <<nhi, nlo>>

RECURSIVE HashFrom(_, _)
HashFrom(h, s) ==
    IF s = <<>> THEN h ELSE HashFrom(HashStep(h, Head(s)), Tail(s))

hashString(s) == HashFrom(<<FnvOffsetHi, FnvOffsetLo>>, s)

\* hash % m for a hash held in halves
HashMod(h, m) == (((h[1] % m) * (Half % m)) + h[2]) % m

(***************************************************************************)
(* The curated palettes (same length, one per theme).                      *)
(***************************************************************************)
distinctPaletteDark ==
    << "#4E79A7", "#F28E2B", "#E15759", "#76B7B2", "#59A14F", "#EDC948",
       "#B07AA1", "#FF9DA7", "#9C755F", "#BAB0AC", "#2F4B7C", "#A05195",
       "#D45087", "#FF7C43", "#665191", "#003F5C", "#EF5675", "#FFA600",
       "#1F77B4", "#17BECF", "#9467BD", "#8C564B", "#BCBD22", "#E377C2",
       "#2CA02C", "#D62728", "#8DD3C7", "#FB8072", "#80B1D3", "#FDB462" >>

distinctPaletteLight ==
    << "#2F5D8A", "#A95E16", "#B04747", "#2E7F7A", "#3D7B35", "#8D7420",
       "#7A5A86", "#B86473", "#6F533F", "#5F6368", "#233A60", "#6D3F73",
       "#A13E6A", "#B85A2C", "#4F3E7A", "#1D3852", "#A9466A", "#B06F00",
       "#215F97", "#187A94", "#6E55A2", "#6D4D3F", "#7A7B1E", "#9A4D94",
       "#2C7A2C", "#A83E3E", "#3A8A84", "#B05A56", "#4E6EA2", "#A87739" >>

paletteSize == Len(distinctPaletteDark)

Slots == 0..(paletteSize - 1)

ProbeStep == 7

seedSlot(key) == HashMod(hashString(key), paletteSize)

usedSlots(table) == {table[k] : k \in DOMAIN table}

\* A stride that shares a factor with the palette size.
ProbeCandidateNotCoprime(seed, i) == (seed + (i * (ProbeStep - 1))) % paletteSize

\* candidate = (seedSlot + i * step) % paletteSize, i = 0 .. paletteSize - 1
ProbeCandidate(seed, i) == (seed + (i * ProbeStep)) % paletteSize

\* The slot the probe loop leaves in chosenSlot: the first candidate not in
\* usedSlots, and the seed slot itself when every candidate is used.
chosenSlot(table, key) ==
    LET seed == seedSlot(key)
        used == usedSlots(table)
        free == {i \in 0..(paletteSize - 1) : ProbeCandidate(seed, i) \notin used}
    IN  IF free = {} THEN seed
        ELSE ProbeCandidate(seed, CHOOSE i \in free : \A j \in free : i <= j)

\* The probe run on every call, also for a key that already holds a slot.
TableAfterReprobe(table, raw) ==
    LET s == NormalizeLabel(raw)
    IN  [k \in DOMAIN table \cup {s} |->
            IF k = s THEN chosenSlot(table, s) ELSE table[k]]

\* The table after colorFromString(raw): a key already present is left alone.
TableAfter(table, raw) ==
    LET s == NormalizeLabel(raw)
    IN  IF s \in DOMAIN table THEN table
        ELSE [k \in DOMAIN table \cup {s} |->
                 IF k = s THEN chosenSlot(table, s) ELSE table[k]]

PaletteColor(themeName, slot) ==
    IF themeName = "light" THEN distinctPaletteLight[slot + 1]
    ELSE distinctPaletteDark[slot + 1]

\* The value colorFromString(raw) returns, given the table after the call.
ColorReturned(table, themeName, raw) ==
    PaletteColor(themeName, TableAfter(table, raw)[NormalizeLabel(raw)])

(***************************************************************************)
(* SpecColor: the colour-slot table over a process lifetime.               *)
(*                                                                         *)
(* Labels are "(blank)", the letters a..z and the two-letter labels aa,    *)
(* ab, ...; callers pass them as typed (upper case, padded with blanks).   *)
(* A label is first requested only while at most one label earlier in the *)
(* list is still unrequested, which bounds the number of request orders    *)
(* explored without fixing a single one.                                   *)
(***************************************************************************)
NumLabels == 32

LabelAt(i) ==
    IF i = 1 THEN BlankKey
    ELSE IF i <= 27 THEN <<95 + i>>
    ELSE <<97, 69 + i>>

LabelIndex == 1..NumLabels

ToUpperCode(c) == IF c >= 97 /\ c <= 122 THEN c - 32 ELSE c

\* What a caller may pass for label i: the key itself and, for the first
\* labels of the list, other spellings of it ("" and "  " for the blank
\* label, upper case padded with blanks for a letter).
RawInputs(i) ==
    IF i = 1 THEN {<<>>, <<SpaceCode, SpaceCode>>, BlankKey}
    ELSE IF i <= 3
    THEN {LabelAt(i),
          <<SpaceCode>> \o [j \in 1..Len(LabelAt(i)) |-> ToUpperCode(LabelAt(i)[j])]
                       \o <<SpaceCode>>}
    ELSE {LabelAt(i)}

\* Label i may be requested when it is known already, or when every label
\* before it, except possibly one, has been requested.
Requestable(i) ==
    \/ LabelAt(i) \in DOMAIN colorSpecByKey
    \/ Cardinality({j \in 1..(i - 1) : LabelAt(j) \notin DOMAIN colorSpecByKey}) <= 1

EmptyTable == [k \in {} |-> 0]

\* The renderCoverageChart calls a session makes.
MaxCalls == 2

\* No call of renderCoverageChart has been made, no table fetched.
NoCalls ==
    [i \in 1..MaxCalls |->
        [state |-> "idle",
         tables |-> [rows |-> <<>>, column |-> [header |-> "", value |-> ""]]]]

\* let activeChart = null
NoActiveChart == [live |-> FALSE, labels |-> <<>>, datasets |-> <<>>, quotaDetailsByYear |-> <<>>]

NoYear == -1

\* filters.startDate, filters.endDate: null
NoFilterDate == -1

\* The filters of the module's initial _cache.
InitialFilters ==
    [ startYear |-> NoYear, endYear |-> NoYear, startDate |-> NoFilterDate,
      endDate |-> NoFilterDate, insuranceProgram |-> "",
      policyLimitType |-> "", annualized |-> FALSE, carriers |-> {}, carrierGroups |-> {} ]

\* The chart state SpecColor runs against: no chart, or a chart whose content
\* is left open (the labels its rebuilds ask colours for are inputs).
InitColor ==
    /\ colorSpecByKey = EmptyTable
    /\ theme = "dark"
    /\ chart \in BOOLEAN
    /\ currentView = "carrier"
    /\ allSlices = <<>> /\ allXLabels = <<>> /\ slices = <<>> /\ xLabels = <<>>
    /\ quotaKeySet = {}
    /\ source = [rows |-> <<>>, column |-> [header |-> "", value |-> ""]]
    /\ filters = InitialFilters
    /\ hiddenLegendCarriers = {} /\ hiddenLegendCarrierGroups = {}
    /\ datasets = <<>>
    /\ cachedPolicies = <<>> /\ yearlyView = "carrier" /\ activeChart = NoActiveChart
    /\ calls = NoCalls /\ instances = <<>>

\* colorFromString(raw), called by a rebuild or by a legend or gradient draw.
ColorFromString(i, raw) ==
    /\ chart
    /\ Requestable(i)
    /\ colorSpecByKey' = TableAfter(colorSpecByKey, raw)
    /\ UNCHANGED <<theme, chartVars>>

\* syncThemeUI(t) with no chart yet: applyThemeToPage(t), then setChartTheme
\* returns from rebuildChart at once.
SyncThemeNoChart(t) ==
    /\ ~chart
    /\ theme' = t
    /\ UNCHANGED <<colorSpecByKey, chartVars>>

\* A theme switch that starts the slot table afresh.
SyncThemeRebuildResetsTable(t, i, raw) ==
    /\ chart
    /\ Requestable(i)
    /\ theme' = t
    /\ colorSpecByKey' = TableAfter(IF t = theme THEN colorSpecByKey ELSE EmptyTable, raw)
    /\ UNCHANGED chartVars

\* syncThemeUI(t) with a chart: applyThemeToPage(t), then setChartTheme
\* rebuilds, which asks colorFromString for the colour of a charted group.
SyncThemeRebuild(t, i, raw) ==
    /\ chart
    /\ Requestable(i)
    /\ theme' = t
    /\ colorSpecByKey' = TableAfter(colorSpecByKey, raw)
    /\ UNCHANGED chartVars

NextColor ==
    \/ \E i \in LabelIndex : \E raw \in RawInputs(i) : ColorFromString(i, raw)
    \/ \E t \in {"light", "dark"} : SyncThemeNoChart(t)
    \/ \E t \in {"light", "dark"} : \E i \in LabelIndex : \E raw \in RawInputs(i) :
           SyncThemeRebuild(t, i, raw)

SpecColor == InitColor /\ [][NextColor]_vars

(***************************************************************************)
(* The chart engine.                                                       *)
(*                                                                         *)
(* Input tables.  A row of PolicyCatalogue is one limits-table row joined  *)
(* with its policy, policy-dates, carrier and carrier-group rows.  Dates   *)
(* are whole periods: a policy covers the periods start .. end, both       *)
(* included (the engine's policyEndMs is the last millisecond of the end   *)
(* day).  The tables of a session hold the rows of any set of at most      *)
(* MaxPolicies catalogue entries, in catalogue order, and one more column  *)
(* whose header and value may or may not be quota-share evidence.  Only    *)
(* the year-axis mode (useYearAxis, the default) is modelled.              *)
(***************************************************************************)
YearLen == 2

NumYears == 2

MaxPolicies == 4

Years == 0..(NumYears - 1)

LastPeriod == (NumYears * YearLen) - 1

NoDate == -1

startOfYearUTC(y) == y * YearLen

endOfYearUTC(y) == ((y + 1) * YearLen) - 1

startOfNextYearUTC(y) == (y + 1) * YearLen

getUTCFullYear(ms) == ms \div YearLen

\* Strictly increasing in ms, Jan 1 of year y to the left edge of year y.
msToYearAxisValue(ms) == ms

\* String(Math.floor(n + 0.5)) of a point strictly inside a segment: the
\* year whose interval [y - 0.5, y + 0.5) holds the segment's midpoint.  With
\* the axis in periods the midpoint of [a, b) lies in year (a + b) div
\* (2 * YearLen).
yearLabelFromAxisValue(segStart, segEnd) == (segStart + segEnd) \div (2 * YearLen)

\* a.localeCompare(b) < 0 on the names the model uses.
AlphabeticalOrder ==
    << "(unknown carrier)", "(unknown group)", "Acme", "Available", "Bodily Injury",
       "Borealis", "Cobalt", "Group North", "Group South", "Products",
       "Property Damage", "Quota share", "Unavailable" >>

AlphaRank(name) == CHOOSE i \in 1..Len(AlphabeticalOrder) : AlphabeticalOrder[i] = name

localeCompareLess(a, b) == AlphaRank(a) < AlphaRank(b)

\* String(t).trim().toLowerCase() === "bodily injury"
IsBodilyInjury(t) == t = "Bodily Injury"

(***************************************************************************)
(* classifyAvailability.  The signals of a policy are the cells the        *)
(* classifier reads: the carrier row's solvency field, the policy row's    *)
(* collectible and insolvent flags, and the free-text status of the policy *)
(* row and of the carrier row.  The tests on a cell (lower-casing, then    *)
(* includes or ===) are tabulated for the values the model uses.           *)
(***************************************************************************)
SolvencyValues == {"", "Insolvent", "Solvent", "0", "1", "Under review"}

FlagValues == {"", "0", "1", "No", "Yes", "maybe"}

StatusValues == {"", "Unavailable", "Bankrupt", "Open"}

NoSignals == [solvency |-> "", collectible |-> "", insolvent |-> "", status |-> "", cstatus |-> ""]

\* s.includes("insolv") || s.includes("bankrupt") || s.includes("liquidat")
solvencyLooksInsolvent(s) == s = "Insolvent"

\* s.includes("solvent") || s.includes("active") || s.includes("good")
solvencyLooksSolvent(s) == s \in {"Insolvent", "Solvent"}

\* v === "0" || v === "false" || v === "no" || v === "n", v lower-cased
isFalseFlag(v) == v \in {"0", "No"}

\* v === "1" || v === "true" || v === "yes" || v === "y", v lower-cased
isTrueFlag(v) == v \in {"1", "Yes"}

\* includes("insolv") || includes("bankrupt") || includes("unavail")
statusLooksUnavailable(t) == t \in {"Unavailable", "Bankrupt"}

\* The policy row's flags consulted before the carrier's solvency field.
classifyAvailabilityPolicyFirst(sg) ==
    IF sg.collectible # "" /\ isFalseFlag(sg.collectible) THEN "Unavailable"
    ELSE IF sg.collectible # "" /\ isTrueFlag(sg.collectible) THEN "Available"
    ELSE IF sg.insolvent # "" /\ isTrueFlag(sg.insolvent) THEN "Unavailable"
    ELSE IF sg.solvency # "" /\ solvencyLooksInsolvent(sg.solvency) THEN "Unavailable"
    ELSE IF sg.solvency # "" /\ solvencyLooksSolvent(sg.solvency) THEN "Available"
    ELSE IF sg.solvency # "" /\ isFalseFlag(sg.solvency) THEN "Unavailable"
    ELSE IF sg.solvency # "" /\ isTrueFlag(sg.solvency) THEN "Available"
    ELSE IF statusLooksUnavailable(sg.status) THEN "Unavailable"
    ELSE IF statusLooksUnavailable(sg.cstatus) THEN "Unavailable"
    ELSE "Available"

classifyAvailability(sg) ==
    IF sg.solvency # "" /\ solvencyLooksInsolvent(sg.solvency) THEN "Unavailable"
    ELSE IF sg.solvency # "" /\ solvencyLooksSolvent(sg.solvency) THEN "Available"
    ELSE IF sg.solvency # "" /\ isFalseFlag(sg.solvency) THEN "Unavailable"
    ELSE IF sg.solvency # "" /\ isTrueFlag(sg.solvency) THEN "Available"
    ELSE IF sg.collectible # "" /\ isFalseFlag(sg.collectible) THEN "Unavailable"
    ELSE IF sg.collectible # "" /\ isTrueFlag(sg.collectible) THEN "Available"
    ELSE IF sg.insolvent # "" /\ isTrueFlag(sg.insolvent) THEN "Unavailable"
    ELSE IF statusLooksUnavailable(sg.status) THEN "Unavailable"
    ELSE IF statusLooksUnavailable(sg.cstatus) THEN "Unavailable"
    ELSE "Available"

PolicyCatalogue ==
    << [PolicyID |-> "P1", carrier |-> "Acme", carrierGroup |-> "Group North",
        insuranceProgram |-> "Casualty", namedInsuredId |-> "N1",
        policyLimitType |-> "Bodily Injury", attach |-> 0, limit |-> 2,
        start |-> 0, end |-> YearLen - 1, signals |-> NoSignals],
       [PolicyID |-> "P2", carrier |-> "Borealis", carrierGroup |-> "Group South",
        insuranceProgram |-> "Casualty", namedInsuredId |-> "N1",
        policyLimitType |-> "Bodily Injury", attach |-> 0, limit |-> 1,
        start |-> 0, end |-> LastPeriod, signals |-> NoSignals],
       [PolicyID |-> "P3", carrier |-> "Acme", carrierGroup |-> "Group North",
        insuranceProgram |-> "Casualty", namedInsuredId |-> "N1",
        policyLimitType |-> "Bodily Injury", attach |-> 0, limit |-> 1,
        start |-> YearLen - 1, end |-> YearLen - 1, signals |-> NoSignals],
       [PolicyID |-> "P4", carrier |-> "Cobalt", carrierGroup |-> "Group South",
        insuranceProgram |-> "Casualty", namedInsuredId |-> "N1",
        policyLimitType |-> "Bodily Injury", attach |-> 0, limit |-> 1,
        start |-> YearLen - 1, end |-> YearLen, signals |-> [NoSignals EXCEPT !.insolvent = "1"]],
       [PolicyID |-> "P5", carrier |-> "Cobalt", carrierGroup |-> "Group South",
        insuranceProgram |-> "Casualty", namedInsuredId |-> "N1",
        policyLimitType |-> "Property Damage", attach |-> 3, limit |-> 2,
        start |-> YearLen, end |-> LastPeriod, signals |-> NoSignals] >>

CatalogueIndex == 1..Len(PolicyCatalogue)

\* Rows that only the loads of SpecRows draw on: a second policy of P1's
\* carrier with P1's limit, dates and attachment; a second limits row of
\* policy P1; a limits row with limit 0; a limits row whose policy has no
\* start date; a policy whose dates record holds the later date first; a
\* one-period policy of P5's carrier and layer with P2's limit type, and
\* another one that ends before the first one begins.
ExtraRows ==
    << [PolicyCatalogue[1] EXCEPT !.PolicyID = "P6"],
       [PolicyCatalogue[1] EXCEPT !.limit = 1],
       [PolicyCatalogue[2] EXCEPT !.PolicyID = "P7", !.limit = 0],
       [PolicyCatalogue[2] EXCEPT !.PolicyID = "P8", !.start = NoDate],
       [PolicyCatalogue[4] EXCEPT !.PolicyID = "P9", !.start = YearLen, !.end = YearLen - 1],
       [PolicyCatalogue[5] EXCEPT !.PolicyID = "P10", !.policyLimitType = "Bodily Injury",
                                  !.end = YearLen],
       [PolicyCatalogue[5] EXCEPT !.PolicyID = "P11", !.policyLimitType = "Bodily Injury",
                                  !.start = 0, !.end = 0] >>

FullCatalogue == PolicyCatalogue \o ExtraRows

\* The rows of a set of catalogue entries, in catalogue order.
RECURSIVE RowsFrom(_, _)
RowsFrom(i, picked) ==
    IF i > Len(FullCatalogue) THEN <<>>
    ELSE (IF i \in picked THEN <<FullCatalogue[i]>> ELSE <<>>) \o RowsFrom(i + 1, picked)

Reverse(q) == [i \in 1..Len(q) |-> q[Len(q) + 1 - i]]

\* One more column of the policy table: its header and the value every row
\* holds in it.
ExtraColumns ==
    { [header |-> "PolicyNotes",   value |-> "renewed 50"],
      [header |-> "QuotaSharePct", value |-> "50"] }

\* keyHint.test(header)
keyHint(header) == header = "QuotaSharePct"

\* explicitQuotaPhrase.test(value)
explicitQuotaPhrase(value) == value = "Quota Share layer"

\* valueHint.test(value)
valueHint(value) == value = "Quota Share layer"

\* Number(value stripped to digits) is in (0, 100]
looksLikeQuotaPercent(value) == value \in {"50", "renewed 50"}

\* Some row holds a quota-share phrase, or a percentage or a quota word in a
\* column whose name hints at a share.
hasExplicitQuotaShareEvidence(rows, column) ==
    /\ rows # <<>>
    /\ \/ column.value # "" /\ explicitQuotaPhrase(column.value)
       \/ /\ keyHint(column.header)
          /\ column.value # ""
          /\ (looksLikeQuotaPercent(column.value) \/ valueHint(column.value))

(***************************************************************************)
(* buildSlices, year-axis mode: one slice per limits row and covered       *)
(* calendar year, each with the row's full limit.                          *)
(***************************************************************************)
\* The share of the row's limit that falls into year y.
sliceLimitProrated(r, y) ==
    LET lo == IF r.start <= r.end THEN r.start ELSE r.end
        hi == IF r.start <= r.end THEN r.end ELSE r.start
        overlapStart == IF lo >= startOfYearUTC(y) THEN lo ELSE startOfYearUTC(y)
        overlapEnd   == IF hi <= endOfYearUTC(y) THEN hi ELSE endOfYearUTC(y)
    IN  (r.limit * (overlapEnd - overlapStart + 1)) \div YearLen

\* sliceLimit: sliceLimitRaw, the row's full limit in every year it overlaps.
sliceLimitOfYear(r, y) == r.limit

SliceOfYear(r, y) ==
    LET policyStartMs == IF r.start <= r.end THEN r.start ELSE r.end
        policyEndMs   == IF r.start <= r.end THEN r.end ELSE r.start
        overlapStart  == IF policyStartMs >= startOfYearUTC(y)
                         THEN policyStartMs ELSE startOfYearUTC(y)
        overlapEnd    == IF policyEndMs <= endOfYearUTC(y)
                         THEN policyEndMs ELSE endOfYearUTC(y)
        overlapEndExclusive == IF overlapEnd + 1 <= startOfNextYearUTC(y)
                               THEN overlapEnd + 1 ELSE startOfNextYearUTC(y)
    IN  [ PolicyID |-> r.PolicyID,
          carrier |-> r.carrier,
          carrierGroup |-> r.carrierGroup,
          insuranceProgram |-> r.insuranceProgram,
          namedInsuredId |-> r.namedInsuredId,
          policyLimitType |-> r.policyLimitType,
          availability |-> classifyAvailability(r.signals),
          attach |-> r.attach,
          sliceLimit |-> sliceLimitOfYear(r, y),
          policyStartYear |-> getUTCFullYear(policyStartMs),
          policyEndYear |-> getUTCFullYear(policyEndMs),
          policyStartMs |-> policyStartMs,
          policyEndMs |-> policyEndMs,
          yearOverlapStartMs |-> overlapStart,
          yearOverlapEndMs |-> overlapEnd,
          xStartValue |-> msToYearAxisValue(overlapStart),
          xEndValue |-> msToYearAxisValue(overlapEndExclusive),
          year |-> y ]

\* The slices of a row whatever its limit.
SlicesOfRowAnyLimit(r) ==
    IF r.start = NoDate \/ r.end = NoDate THEN <<>>
    ELSE LET lo == getUTCFullYear(IF r.start <= r.end THEN r.start ELSE r.end)
             hi == getUTCFullYear(IF r.start <= r.end THEN r.end ELSE r.start)
             perYear == [i \in 1..(hi - lo + 1) |-> SliceOfYear(r, lo + i - 1)]
         IN  SelectSeq(perYear,
                       LAMBDA sl : /\ sl.yearOverlapEndMs >= sl.yearOverlapStartMs
                                   /\ sl.xEndValue > sl.xStartValue)

\* The slices of one limits row; none for a row without dates or with a
\* limit <= 0, and none for a year the policy does not overlap.
SlicesOfRow(r) ==
    IF r.start = NoDate \/ r.end = NoDate \/ r.limit <= 0 THEN <<>>
    ELSE LET lo == getUTCFullYear(IF r.start <= r.end THEN r.start ELSE r.end)
             hi == getUTCFullYear(IF r.start <= r.end THEN r.end ELSE r.start)
             perYear == [i \in 1..(hi - lo + 1) |-> SliceOfYear(r, lo + i - 1)]
         IN  SelectSeq(perYear,
                       LAMBDA sl : /\ sl.yearOverlapEndMs >= sl.yearOverlapStartMs
                                   /\ sl.xEndValue > sl.xStartValue)

RECURSIVE buildSlices(_)
buildSlices(rows) ==
    IF rows = <<>> THEN <<>>
    ELSE SlicesOfRow(Head(rows)) \o buildSlices(Tail(rows))

\* min .. max as an ascending sequence; empty for an empty set.
YearSpan(ys) ==
    IF ys = {} THEN <<>>
    ELSE LET lo == CHOOSE y \in ys : \A z \in ys : y <= z
             hi == CHOOSE y \in ys : \A z \in ys : z <= y
         IN  [i \in 1..(hi - lo + 1) |-> lo + i - 1]

\* The year labels of a load: every year from the earliest to the latest
\* start or end year in the dates table.
buildXLabels(rows) ==
    YearSpan({getUTCFullYear(rows[i].start) : i \in {n \in 1..Len(rows) : rows[n].start # NoDate}}
               \cup {getUTCFullYear(rows[i].end) : i \in {n \in 1..Len(rows) : rows[n].end # NoDate}})

(***************************************************************************)
(* Quota-share detection.                                                  *)
(***************************************************************************)
NoQuotaKey == <<>>

quotaGroupKey(sl) ==
    << sl.insuranceProgram, sl.year, sl.attach, sl.policyLimitType, sl.namedInsuredId,
       sl.yearOverlapStartMs, sl.yearOverlapEndMs >>

SeqRange(q) == {q[i] : i \in 1..Len(q)}

\* byQuotaKey after the loop over the slices: quotaGroupKey -> Set(PolicyID).
RECURSIVE byQuotaKeyOf(_)
byQuotaKeyOf(sliceSeq) ==
    IF sliceSeq = <<>> THEN [k \in {} |-> {}]
    ELSE LET before == byQuotaKeyOf(SubSeq(sliceSeq, 1, Len(sliceSeq) - 1))
             s == sliceSeq[Len(sliceSeq)]
             k == quotaGroupKey(s)
         IN  [x \in (DOMAIN before) \cup {k} |->
                 IF x # k THEN before[x]
                 ELSE IF k \in DOMAIN before THEN before[k] \cup {s.PolicyID}
                 ELSE {s.PolicyID}]

\* The keys that two or more slices have.
buildQuotaKeySetCountingSlices(sliceSeq) ==
    {k \in {quotaGroupKey(sliceSeq[i]) : i \in 1..Len(sliceSeq)} :
        Cardinality({i \in 1..Len(sliceSeq) : quotaGroupKey(sliceSeq[i]) = k}) > 1}

\* The keys whose set of policy ids has more than one element.
buildQuotaKeySet(sliceSeq) ==
    {k \in DOMAIN byQuotaKeyOf(sliceSeq) : Cardinality(byQuotaKeyOf(sliceSeq)[k]) > 1}

\* The key set of a load as the older engine computes it: no evidence check.
QuotaKeySetIgnoringEvidence(rows, column, built) == buildQuotaKeySet(built)

\* quotaEnabled ? buildQuotaKeySet(built.slices) : new Set()
QuotaKeySetOfLoad(rows, column, built) ==
    IF hasExplicitQuotaShareEvidence(rows, column) THEN buildQuotaKeySet(built) ELSE {}

(***************************************************************************)
(* applyFiltersToCache: the filtered slices and year labels.               *)
(***************************************************************************)
CarrierViews == {"carrier", "carrierGroup"}

Views == {"carrier", "carrierGroup", "availability"}

\* A default taken from the slices in the order they were loaded.
DefaultPolicyLimitTypeFirstLoaded(all) ==
    LET typed == SelectSeq(all, LAMBDA sl : sl.policyLimitType # "")
    IN  IF typed = <<>> THEN "" ELSE typed[1].policyLimitType

\* The limit type an empty filter falls back to: "bodily injury" when the
\* loaded slices have it, else the alphabetically first type, else "".
DefaultPolicyLimitType(all) ==
    LET types == {sl.policyLimitType : sl \in SeqRange(all)} \ {""}
    IN  IF \E t \in types : IsBodilyInjury(t)
        THEN CHOOSE t \in types : IsBodilyInjury(t)
        ELSE IF types = {} THEN ""
        ELSE CHOOSE t \in types : \A u \in types : u = t \/ localeCompareLess(t, u)

EffectivePolicyLimitType(all, f) ==
    IF f.policyLimitType # "" THEN f.policyLimitType ELSE DefaultPolicyLimitType(all)

YearFilterActive(f) ==
    \/ f.startYear # NoYear \/ f.endYear # NoYear
    \/ f.startDate # NoFilterDate \/ f.endDate # NoFilterDate

\* A range test on the part of the policy that lies in the slice's own year.
InYearRangeOfSlice(sl, f) ==
    /\ IF f.endDate # NoFilterDate THEN sl.yearOverlapStartMs <= f.endDate
       ELSE f.endYear = NoYear \/ sl.yearOverlapStartMs <= endOfYearUTC(f.endYear)
    /\ IF f.startDate # NoFilterDate THEN sl.yearOverlapEndMs >= f.startDate
       ELSE f.startYear = NoYear \/ sl.yearOverlapEndMs >= startOfYearUTC(f.startYear)

\* policyStartMs <= filterEndMs && policyEndMs >= filterStartMs, the filter's
\* ends taken from its dates when set (the end date up to its last
\* millisecond), else from its years, else unbounded.
InYearRange(sl, f) ==
    /\ IF f.endDate # NoFilterDate THEN sl.policyStartMs <= f.endDate
       ELSE f.endYear = NoYear \/ sl.policyStartMs <= endOfYearUTC(f.endYear)
    /\ IF f.startDate # NoFilterDate THEN sl.policyEndMs >= f.startDate
       ELSE f.startYear = NoYear \/ sl.policyEndMs >= startOfYearUTC(f.startYear)

FilteredSlices(all, f) ==
    LET type == EffectivePolicyLimitType(all, f)
    IN  SelectSeq(all, LAMBDA sl :
            /\ YearFilterActive(f) => InYearRange(sl, f)
            /\ f.insuranceProgram # "" => sl.insuranceProgram = f.insuranceProgram
            /\ type # "" => sl.policyLimitType = type)

FilteredXLabels(allX, filtered, f) ==
    IF filtered # <<>>
    THEN YearSpan({sl.policyStartYear : sl \in SeqRange(filtered)}
                    \cup {sl.policyEndYear : sl \in SeqRange(filtered)})
    ELSE IF YearFilterActive(f) THEN <<>> ELSE allX

(***************************************************************************)
(* buildDatasetsForView, year-axis mode.                                   *)
(***************************************************************************)
\* Array.prototype.sort with a consistent comparator is stable: an element
\* goes after every element that compares lower and after every earlier
\* element that compares equal.  less holds the index pairs <<i, j>> for
\* which the comparator puts q[i] before q[j].
StableSort(q, less) ==
    LET rank(i) == Cardinality({j \in 1..Len(q) :
                       \/ <<j, i>> \in less
                       \/ <<i, j>> \notin less /\ j < i})
    IN  [k \in 1..Len(q) |-> q[CHOOSE i \in 1..Len(q) : rank(i) = k - 1]]

\* The index pairs of q.
IndexPairs(q) == (1..Len(q)) \X (1..Len(q))

\* The elements of q without repetitions, in order of first occurrence.
FirstOccurrences(q) ==
    LET firsts == {i \in 1..Len(q) : \A j \in 1..(i - 1) : q[j] # q[i]}
        nth(k) == CHOOSE i \in firsts : Cardinality({j \in firsts : j < i}) = k - 1
    IN  [k \in 1..Cardinality(firsts) |-> q[nth(k)]]

\* A set of numbers as an ascending sequence.
Ascending(S) ==
    [k \in 1..Cardinality(S) |-> CHOOSE v \in S : Cardinality({w \in S : w < v}) = k - 1]

RECURSIVE SumLimits(_)
SumLimits(q) == IF q = <<>> THEN 0 ELSE Head(q).sliceLimit + SumLimits(Tail(q))

isUnavailable(sl) == sl.availability = "Unavailable"

\* Hidden entries that count in every view.
isHiddenInAnyView(sl, view, hiddenCarriers, hiddenCarrierGroups) ==
    sl.carrier \in hiddenCarriers \/ sl.carrierGroup \in hiddenCarrierGroups

isHiddenBySyntheticLegend(sl, view, hiddenCarriers, hiddenCarrierGroups) ==
    \/ view = "carrier" /\ sl.carrier \in hiddenCarriers
    \/ view = "carrierGroup" /\ sl.carrierGroup \in hiddenCarrierGroups

isQuotaSlice(sl, qkSet) == quotaGroupKey(sl) \in qkSet

keyOf(sl, view, qkSet) ==
    IF view \in CarrierViews
    THEN IF isQuotaSlice(sl, qkSet) THEN "Quota share"
         ELSE IF isUnavailable(sl) THEN "Unavailable"
         ELSE IF view = "carrier" THEN sl.carrier ELSE sl.carrierGroup
    ELSE IF isUnavailable(sl) THEN "Unavailable" ELSE sl.availability

\* The quotaGroupKey component of a slice's bucket.
BucketQuotaKey(sl, view, qkSet) ==
    IF view \in CarrierViews /\ isQuotaSlice(sl, qkSet)
    THEN quotaGroupKey(sl) ELSE NoQuotaKey

\* A bucket per policy: the policy id is part of the key.
BucketKeyPerPolicy(sl, view, qkSet) ==
    << keyOf(sl, view, qkSet), sl.attach, BucketQuotaKey(sl, view, qkSet), sl.PolicyID >>

\* k = `${group}||${s.attach}||${quotaGroupKey}`
BucketKey(sl, view, qkSet) ==
    << keyOf(sl, view, qkSet), sl.attach, BucketQuotaKey(sl, view, qkSet) >>

getSelectionSets(f) ==
    [carriers |-> f.carriers, carrierGroups |-> f.carrierGroups,
     active |-> f.carriers # {} \/ f.carrierGroups # {}]

\* A match on the carrier or on the carrier group.
sliceMatchesEitherSelection(sl, selection) ==
    \/ ~selection.active
    \/ selection.carriers # {} /\ sl.carrier \in selection.carriers
    \/ selection.carrierGroups # {} /\ sl.carrierGroup \in selection.carrierGroups

sliceMatchesSelection(sl, selection) ==
    \/ ~selection.active
    \/ /\ selection.carriers = {} \/ sl.carrier \in selection.carriers
       /\ selection.carrierGroups = {} \/ sl.carrierGroup \in selection.carrierGroups

\* `${pid}||${sliceLimit}||${quotaGroupKey}` of every participant, sorted and
\* joined: two signatures are equal exactly when they hold the same entries
\* the same number of times.
Signature(participants) ==
    LET entry(pt) == <<pt.pid, pt.sliceLimit, pt.quotaGroupKey>>
        entries == {entry(pt) : pt \in SeqRange(participants)}
    IN  [e \in entries |->
            Cardinality({i \in 1..Len(participants) : entry(participants[i]) = e})]

\* Active rows: a row that starts where the sub-interval ends counts as well.
ActiveRowsRightClosed(rows, segStart, segEnd) ==
    SelectSeq(rows, LAMBDA sl : sl.xStartValue <= segEnd /\ sl.xEndValue > segStart)

\* Active rows: a row that merely touches the sub-interval counts as well.
ActiveRowsClosed(rows, segStart, segEnd) ==
    SelectSeq(rows, LAMBDA sl : sl.xStartValue <= segEnd /\ sl.xEndValue >= segStart)

\* xs < segEnd && xe > segStart
ActiveRows(rows, segStart, segEnd) ==
    SelectSeq(rows, LAMBDA sl : sl.xStartValue < segEnd /\ sl.xEndValue > segStart)

\* The raw segment of one sub-interval of a bucket (participants empty when
\* no row is active).
RawSegment(rows, bucketQuotaKey, selection, segStart, segEnd) ==
    LET active == SelectSeq(ActiveRows(rows, segStart, segEnd),
                            LAMBDA sl : sl.sliceLimit > 0)
        participants ==
            [i \in 1..Len(active) |->
                [ pid |-> active[i].PolicyID,
                  carrier |-> active[i].carrier,
                  carrierGroup |-> active[i].carrierGroup,
                  availability |-> active[i].availability,
                  sliceLimit |-> active[i].sliceLimit,
                  xStartValue |-> segStart,
                  xEndValue |-> segEnd,
                  quotaGroupKey |-> IF bucketQuotaKey # NoQuotaKey
                                    THEN quotaGroupKey(active[i]) ELSE NoQuotaKey ]]
    IN  [ segStart |-> segStart,
          segEnd |-> segEnd,
          segLimit |-> SumLimits(active),
          participants |-> participants,
          hasSelectionMatch |->
              \E i \in 1..Len(active) : sliceMatchesSelection(active[i], selection),
          signature |-> Signature(participants) ]

\* A sweep that keeps the sub-intervals no row is active in.
RawSegmentsWithGaps(rows, bucketQuotaKey, selection) ==
    LET bounds == Ascending({sl.xStartValue : sl \in SeqRange(rows)}
                              \cup {sl.xEndValue : sl \in SeqRange(rows)})
    IN  [i \in 1..(Len(bounds) - 1) |->
            RawSegment(rows, bucketQuotaKey, selection, bounds[i], bounds[i + 1])]

\* The boundary sweep of one bucket: a raw segment per pair of consecutive
\* bounds that has an active row and a summed limit > 0.
RawSegments(rows, bucketQuotaKey, selection) ==
    LET bounds == Ascending({sl.xStartValue : sl \in SeqRange(rows)}
                              \cup {sl.xEndValue : sl \in SeqRange(rows)})
        all == [i \in 1..(Len(bounds) - 1) |->
                   RawSegment(rows, bucketQuotaKey, selection, bounds[i], bounds[i + 1])]
    IN  SelectSeq(all, LAMBDA seg : seg.participants # <<>> /\ seg.segLimit > 0)

\* A merge that forgets to extend the previous segment.
MergeWithoutExtending(raw) ==
    LET RECURSIVE Fold(_, _)
        Fold(final, rest) ==
            IF rest = <<>> THEN final
            ELSE LET seg == Head(rest)
                     n == Len(final)
                 IN  IF /\ n > 0
                        /\ final[n].segEnd = seg.segStart
                        /\ final[n].signature = seg.signature
                        /\ final[n].segLimit = seg.segLimit
                     THEN Fold(final, Tail(rest))
                     ELSE Fold(Append(final, seg), Tail(rest))
    IN  Fold(<<>>, raw)

\* A merge step that passes the raw segments on as they are.
MergeSegmentsSkipped(raw) == raw

\* Merge adjacent segments when the active participant set is unchanged.
MergeSegments(raw) ==
    LET RECURSIVE Fold(_, _)
        Fold(final, rest) ==
            IF rest = <<>> THEN final
            ELSE LET seg == Head(rest)
                     n == Len(final)
                 IN  IF /\ n > 0
                        /\ final[n].segEnd = seg.segStart
                        /\ final[n].signature = seg.signature
                        /\ final[n].segLimit = seg.segLimit
                     THEN Fold([final EXCEPT ![n].segEnd = seg.segEnd,
                                             ![n].hasSelectionMatch =
                                                 final[n].hasSelectionMatch \/ seg.hasSelectionMatch],
                               Tail(rest))
                     ELSE Fold(Append(final, seg), Tail(rest))
    IN  Fold(<<>>, raw)

\* Final segments that are merged in the annualized mode as well.
FinalSegmentsAlwaysMerged(rows, bucketQuotaKey, selection, annualized) ==
    MergeSegments(RawSegments(rows, bucketQuotaKey, selection))

FinalSegments(rows, bucketQuotaKey, selection, annualized) ==
    IF annualized THEN RawSegments(rows, bucketQuotaKey, selection)
    ELSE MergeSegments(RawSegments(rows, bucketQuotaKey, selection))

\* e.participants.sort(...): larger limit first, then carrier name.
SortParticipants(participants) ==
    StableSort(participants,
               {ij \in IndexPairs(participants) :
                   LET a == participants[ij[1]]
                       b == participants[ij[2]]
                   IN  \/ a.sliceLimit > b.sliceLimit
                       \/ a.sliceLimit = b.sliceLimit
                          /\ localeCompareLess(a.carrier, b.carrier)})

\* The drawable points of one bucket, in time order.
BucketPoints(bucketKey, rows, qkSet, selection, annualized) ==
    LET segs == FinalSegments(rows, bucketKey[3], selection, annualized)
    IN  [i \in 1..Len(segs) |->
            [ group |-> bucketKey[1],
              yearLabel |-> yearLabelFromAxisValue(segs[i].segStart, segs[i].segEnd),
              xStart |-> segs[i].segStart,
              xEnd |-> segs[i].segEnd,
              attach |-> bucketKey[2],
              top |-> bucketKey[2] + segs[i].segLimit,
              sumLimit |-> segs[i].segLimit,
              participants |-> SortParticipants(segs[i].participants),
              annualized |-> annualized,
              isQuotaShare |-> bucketKey[3] # NoQuotaKey /\ bucketKey[3] \in qkSet,
              quotaGroupKey |-> bucketKey[3],
              isHighlighted |-> ~selection.active \/ segs[i].hasSelectionMatch ]]

RECURSIVE Concat(_)
Concat(qq) == IF qq = <<>> THEN <<>> ELSE Head(qq) \o Concat(Tail(qq))

\* The slices a build works on: those the synthetic legend has not hidden.
VisibleSlices(sliceSeq, view, hiddenCarriers, hiddenCarrierGroups) ==
    SelectSeq(sliceSeq, LAMBDA sl :
        ~isHiddenBySyntheticLegend(sl, view, hiddenCarriers, hiddenCarrierGroups))

\* groupList: "Quota share" first and then by name in the carrier views,
\* "Unavailable" last in the availability view.
GroupList(groupSeq, view) ==
    IF view \in CarrierViews
    THEN StableSort(groupSeq,
                    {ij \in IndexPairs(groupSeq) :
                        LET a == groupSeq[ij[1]]
                            b == groupSeq[ij[2]]
                        IN  IF a = "Quota share" \/ b = "Quota share"
                            THEN a = "Quota share" /\ b # "Quota share"
                            ELSE localeCompareLess(a, b)})
    ELSE StableSort(groupSeq,
                    {ij \in IndexPairs(groupSeq) :
                        groupSeq[ij[1]] # "Unavailable" /\ groupSeq[ij[2]] = "Unavailable"})

\* points.sort(...): by xStart, then xEnd, then attachment point.
SortPoints(points) ==
    StableSort(points,
               {ij \in IndexPairs(points) :
                   LET a == points[ij[1]]
                       b == points[ij[2]]
                   IN  \/ a.xStart < b.xStart
                       \/ a.xStart = b.xStart /\ a.xEnd < b.xEnd
                       \/ a.xStart = b.xStart /\ a.xEnd = b.xEnd /\ a.attach < b.attach})

buildDatasetsForView(sliceSeq, view, qkSet, f, hiddenCarriers, hiddenCarrierGroups) ==
    LET selection == getSelectionSets(f)
        visible == VisibleSlices(sliceSeq, view, hiddenCarriers, hiddenCarrierGroups)
        keys == [i \in 1..Len(visible) |-> BucketKey(visible[i], view, qkSet)]
        buckets == FirstOccurrences(keys)
        layers == Concat([b \in 1..Len(buckets) |->
                     BucketPoints(buckets[b],
                                  SelectSeq(visible, LAMBDA sl :
                                      BucketKey(sl, view, qkSet) = buckets[b]),
                                  qkSet, selection, f.annualized)])
        groupList == GroupList(FirstOccurrences([i \in 1..Len(keys) |-> keys[i][1]]), view)
    IN  [g \in 1..Len(groupList) |->
            [ label |-> groupList[g],
              data |-> SortPoints(SelectSeq(layers, LAMBDA pt : pt.group = groupList[g])) ]]

(***************************************************************************)
(* The legend of the carrier views.                                        *)
(***************************************************************************)
\* generateLabels: the carriers (groups) of the filtered slices that have no
\* dataset of their own get a synthetic legend entry.
SyntheticLegendValues(sliceSeq, view, ds) ==
    IF view \notin CarrierViews THEN {}
    ELSE LET existing == {ds[i].label : i \in 1..Len(ds)} \ {"Quota share"}
             unknownValue == IF view = "carrier" THEN "(unknown carrier)"
                             ELSE "(unknown group)"
             values == {IF view = "carrier" THEN sl.carrier ELSE sl.carrierGroup :
                           sl \in SeqRange(sliceSeq)}
         IN  (values \ {"", unknownValue}) \ existing

(***************************************************************************)
(* Spec: the engine's cache and chart under loads, view switches, filter   *)
(* setters and legend clicks.  The colour table and the page theme are the *)
(* subject of SpecColor and stay fixed here.                               *)
(***************************************************************************)
Loads == {picked \in SUBSET CatalogueIndex : Cardinality(picked) <= MaxPolicies}

\* The module's initial state, and the tables the session will load (their
\* rows, in file order): the CSV files do not change while the page is open.
Init ==
    /\ colorSpecByKey = EmptyTable
    /\ theme = "dark"
    /\ chart = FALSE
    /\ currentView = "carrier"
    /\ allSlices = <<>> /\ allXLabels = <<>> /\ slices = <<>> /\ xLabels = <<>>
    /\ quotaKeySet = {}
    /\ source \in {[rows |-> RowsFrom(1, picked), column |-> column] :
                        picked \in Loads, column \in ExtraColumns}
    /\ filters = InitialFilters
    /\ hiddenLegendCarriers = {} /\ hiddenLegendCarrierGroups = {}
    /\ datasets = <<>>
    /\ cachedPolicies = <<>> /\ yearlyView = "carrier" /\ activeChart = NoActiveChart
    /\ calls = NoCalls /\ instances = <<>>

\* A filter application that narrows the slices of the last application.
ApplyFiltersToFilteredAndRebuild(f) ==
    LET applied == [f EXCEPT !.policyLimitType = EffectivePolicyLimitType(allSlices, f)]
        filtered == FilteredSlices(slices, f)
    IN  /\ filters' = applied
        /\ slices' = filtered
        /\ xLabels' = FilteredXLabels(allXLabels, filtered, f)
        /\ datasets' = IF chart
                       THEN buildDatasetsForView(filtered, currentView, quotaKeySet, applied,
                                                 hiddenLegendCarriers, hiddenLegendCarrierGroups)
                       ELSE datasets
        /\ UNCHANGED << colorSpecByKey, theme, chart, currentView, allSlices, allXLabels,
                        quotaKeySet, source, hiddenLegendCarriers,
                        hiddenLegendCarrierGroups, yearlyVars, asyncVars >>

\* applyFiltersToCache(); rebuildChart() after the filters became f.
ApplyFiltersAndRebuild(f) ==
    LET applied == [f EXCEPT !.policyLimitType = EffectivePolicyLimitType(allSlices, f)]
        filtered == FilteredSlices(allSlices, f)
    IN  /\ filters' = applied
        /\ slices' = filtered
        /\ xLabels' = FilteredXLabels(allXLabels, filtered, f)
        /\ datasets' = IF chart
                       THEN buildDatasetsForView(filtered, currentView, quotaKeySet, applied,
                                                 hiddenLegendCarriers, hiddenLegendCarrierGroups)
                       ELSE datasets
        /\ UNCHANGED << colorSpecByKey, theme, chart, currentView, allSlices, allXLabels,
                        quotaKeySet, source, hiddenLegendCarriers,
                        hiddenLegendCarrierGroups, yearlyVars, asyncVars >>

\* renderCoverageChart({initialView}): fetch the tables, build, draw.
RenderCoverageChart(initialView) ==
    LET rows == source.rows
        built == buildSlices(rows)
        keySet == QuotaKeySetOfLoad(rows, source.column, built)
        reset == [InitialFilters EXCEPT !.annualized = filters.annualized]
        applied == [reset EXCEPT !.policyLimitType = DefaultPolicyLimitType(built)]
        filtered == FilteredSlices(built, applied)
    IN  /\ currentView' = initialView
        /\ allSlices' = built
        /\ allXLabels' = buildXLabels(rows)
        /\ quotaKeySet' = keySet
        /\ filters' = applied
        /\ slices' = filtered
        /\ xLabels' = FilteredXLabels(buildXLabels(rows), filtered, applied)
        /\ datasets' = buildDatasetsForView(filtered, initialView, keySet, applied,
                                            hiddenLegendCarriers, hiddenLegendCarrierGroups)
        /\ chart' = TRUE
        /\ UNCHANGED << colorSpecByKey, theme, source, hiddenLegendCarriers,
                        hiddenLegendCarrierGroups, yearlyVars, asyncVars >>

\* A setView that leaves the drawn datasets as they are.
SetViewKeepingDatasets(v) ==
    /\ currentView' = v
    /\ UNCHANGED << colorSpecByKey, theme, chart, allSlices, allXLabels, slices, xLabels,
                    quotaKeySet, source, filters, hiddenLegendCarriers,
                    hiddenLegendCarrierGroups, datasets, yearlyVars, asyncVars >>

SetView(v) ==
    /\ currentView' = v
    /\ datasets' = IF chart /\ slices # <<>>
                   THEN buildDatasetsForView(slices, v, quotaKeySet, filters,
                                             hiddenLegendCarriers, hiddenLegendCarrierGroups)
                   ELSE datasets
    /\ UNCHANGED << colorSpecByKey, theme, chart, allSlices, allXLabels, slices, xLabels,
                    quotaKeySet, source, filters, hiddenLegendCarriers,
                    hiddenLegendCarrierGroups, yearlyVars, asyncVars >>

SetYearRange(startYear, endYear) ==
    LET start == IF startYear > endYear THEN endYear ELSE startYear
        end   == IF startYear > endYear THEN startYear ELSE endYear
    IN  ApplyFiltersAndRebuild([filters EXCEPT !.startYear = start, !.endYear = end,
                                               !.startDate = NoFilterDate,
                                               !.endDate = NoFilterDate])

ResetYearRange ==
    ApplyFiltersAndRebuild([filters EXCEPT !.startYear = NoYear, !.endYear = NoYear,
                                           !.startDate = NoFilterDate,
                                           !.endDate = NoFilterDate])

\* setDateRange: either date may be missing; two dates are put in order; the
\* filter's years follow the dates.
SetDateRange(startDate, endDate) ==
    LET swap  == startDate # NoFilterDate /\ endDate # NoFilterDate /\ startDate > endDate
        start == IF swap THEN endDate ELSE startDate
        end   == IF swap THEN startDate ELSE endDate
    IN  ApplyFiltersAndRebuild(
            [filters EXCEPT !.startDate = start, !.endDate = end,
                            !.startYear = IF start # NoFilterDate
                                          THEN getUTCFullYear(start) ELSE NoYear,
                            !.endYear = IF end # NoFilterDate
                                        THEN getUTCFullYear(end) ELSE NoYear])

SetInsuranceProgramFilter(insuranceProgram) ==
    ApplyFiltersAndRebuild([filters EXCEPT !.insuranceProgram = insuranceProgram])

SetPolicyLimitTypeFilter(t) ==
    ApplyFiltersAndRebuild([filters EXCEPT !.policyLimitType = t])

ResetPolicyLimitTypeFilter ==
    ApplyFiltersAndRebuild([filters EXCEPT !.policyLimitType = ""])

SetAnnualizedMode(enabled) ==
    ApplyFiltersAndRebuild([filters EXCEPT !.annualized = enabled])

SetEntityFilters(carriers, carrierGroups) ==
    ApplyFiltersAndRebuild([filters EXCEPT !.carriers = carriers,
                                           !.carrierGroups = carrierGroups])

\* A click on the synthetic legend entry of a carrier (carrier group).
LegendClick(value) ==
    /\ chart
    /\ value \in SyntheticLegendValues(slices, currentView, datasets)
    /\ hiddenLegendCarriers' =
           IF currentView # "carrier" THEN hiddenLegendCarriers
           ELSE IF value \in hiddenLegendCarriers THEN hiddenLegendCarriers \ {value}
           ELSE hiddenLegendCarriers \cup {value}
    /\ hiddenLegendCarrierGroups' =
           IF currentView # "carrierGroup" THEN hiddenLegendCarrierGroups
           ELSE IF value \in hiddenLegendCarrierGroups THEN hiddenLegendCarrierGroups \ {value}
           ELSE hiddenLegendCarrierGroups \cup {value}
    /\ datasets' = buildDatasetsForView(slices, currentView, quotaKeySet, filters,
                                        hiddenLegendCarriers', hiddenLegendCarrierGroups')
    /\ UNCHANGED << colorSpecByKey, theme, chart, currentView, allSlices, allXLabels, slices,
                    xLabels, quotaKeySet, source, filters, yearlyVars, asyncVars >>

\* Both pages start the chart in the carrier view.
InitialViews == {"carrier"}

LimitTypeInputs == {"", "Bodily Injury", "Property Damage"}

EntityInputs == { <<{}, {}>>, <<{"Acme"}, {}>> }

LegendValues == {"Acme", "Borealis", "Cobalt", "Group North", "Group South"}

Next ==
    \/ \E v \in InitialViews : RenderCoverageChart(v)
    \/ \E v \in Views : SetView(v)
    \/ \E s \in Years : \E e \in Years : SetYearRange(s, e)
    \/ ResetYearRange
    \/ \E t \in LimitTypeInputs : SetPolicyLimitTypeFilter(t)
    \/ \E enabled \in BOOLEAN : SetAnnualizedMode(enabled)
    \/ \E sel \in EntityInputs : SetEntityFilters(sel[1], sel[2])
    \/ \E value \in LegendValues : LegendClick(value)

Spec == Init /\ [][Next]_vars

(***************************************************************************)
(* SpecSetters: a session over tables that hold P1 and P5, under every     *)
(* view switch and every filter setter, the date range and the insurance   *)
(* program among them; no legend clicks.                                   *)
(***************************************************************************)
SetterLoads == {picked \in Loads : 1 \in picked /\ Len(PolicyCatalogue) \in picked}

\* Date ranges a user picks: from the last day of the first year to the
\* first day of the next, open-ended from the second year on, and a range
\* given end first.
DateInputs ==
    { <<YearLen - 1, YearLen>>, <<YearLen, NoFilterDate>>, <<YearLen - 1, 0>> }

ProgramInputs == {"", "Casualty", "Marine"}

InitSetters ==
    /\ colorSpecByKey = EmptyTable
    /\ theme = "dark"
    /\ chart = FALSE
    /\ currentView = "carrier"
    /\ allSlices = <<>> /\ allXLabels = <<>> /\ slices = <<>> /\ xLabels = <<>>
    /\ quotaKeySet = {}
    /\ source \in {[rows |-> RowsFrom(1, picked), column |-> column] :
                        picked \in SetterLoads, column \in ExtraColumns}
    /\ filters = InitialFilters
    /\ hiddenLegendCarriers = {} /\ hiddenLegendCarrierGroups = {}
    /\ datasets = <<>>
    /\ cachedPolicies = <<>> /\ yearlyView = "carrier" /\ activeChart = NoActiveChart
    /\ calls = NoCalls /\ instances = <<>>

NextSetters ==
    \/ \E v \in InitialViews : RenderCoverageChart(v)
    \/ \E v \in Views : SetView(v)
    \/ \E s \in Years : \E e \in Years : SetYearRange(s, e)
    \/ ResetYearRange
    \/ \E d \in DateInputs : SetDateRange(d[1], d[2])
    \/ \E p \in ProgramInputs : SetInsuranceProgramFilter(p)
    \/ \E t \in LimitTypeInputs : SetPolicyLimitTypeFilter(t)
    \/ \E enabled \in BOOLEAN : SetAnnualizedMode(enabled)
    \/ \E sel \in EntityInputs : SetEntityFilters(sel[1], sel[2])

SpecSetters == InitSetters /\ [][NextSetters]_vars

(***************************************************************************)
(* SpecEntities: a session over any tables of Spec in which the user       *)
(* selects carriers, carrier groups or both, in every view, merged or      *)
(* annualized.                                                             *)
(***************************************************************************)
EntitySelections ==
    { <<{}, {}>>, <<{"Acme"}, {}>>, <<{}, {"Group South"}>>,
      <<{"Acme"}, {"Group South"}>>, <<{"Acme", "Cobalt"}, {"Group South"}>> }

NextEntities ==
    \/ \E v \in InitialViews : RenderCoverageChart(v)
    \/ \E v \in Views : SetView(v)
    \/ \E enabled \in BOOLEAN : SetAnnualizedMode(enabled)
    \/ \E sel \in EntitySelections : SetEntityFilters(sel[1], sel[2])

SpecEntities == Init /\ [][NextEntities]_vars

(***************************************************************************)
(* SpecLegend: a session over any tables of Spec in which the user         *)
(* switches views and clicks on the synthetic legend entries, merged or    *)
(* annualized.                                                             *)
(***************************************************************************)
NextLegend ==
    \/ \E v \in InitialViews : RenderCoverageChart(v)
    \/ \E v \in Views : SetView(v)
    \/ \E enabled \in BOOLEAN : SetAnnualizedMode(enabled)
    \/ \E value \in LegendValues : LegendClick(value)

SpecLegend == Init /\ [][NextLegend]_vars

(***************************************************************************)
(* SpecAsync: overlapping calls of renderCoverageChart.  A call sets the   *)
(* view and waits for its CSV files; what follows the await runs in one    *)
(* piece when the files arrive, in any order among the pending calls, or   *)
(* never if a fetch fails.  Each call names its own csvUrl, so two calls   *)
(* may load different tables.  Setters and legend clicks run between the   *)
(* pieces.                                                                 *)
(***************************************************************************)
AsyncTables ==
    { [rows |-> RowsFrom(1, {1, 2}), column |-> [header |-> "QuotaSharePct", value |-> "50"]],
      [rows |-> RowsFrom(1, {2, 5}), column |-> [header |-> "PolicyNotes", value |-> "renewed 50"]] }

InitAsync ==
    /\ colorSpecByKey = EmptyTable
    /\ theme = "dark"
    /\ chart = FALSE
    /\ currentView = "carrier"
    /\ allSlices = <<>> /\ allXLabels = <<>> /\ slices = <<>> /\ xLabels = <<>>
    /\ quotaKeySet = {}
    /\ source = [rows |-> <<>>, column |-> [header |-> "", value |-> ""]]
    /\ filters = InitialFilters
    /\ hiddenLegendCarriers = {} /\ hiddenLegendCarrierGroups = {}
    /\ datasets = <<>>
    /\ cachedPolicies = <<>> /\ yearlyView = "carrier" /\ activeChart = NoActiveChart
    /\ calls = NoCalls /\ instances = <<>>

\* renderCoverageChart up to its await: the view is set, the fetches start.
\* Calls are numbered in the order they are made.
BeginRender(i, initialView, tables) ==
    /\ calls[i].state = "idle"
    /\ \A j \in 1..(i - 1) : calls[j].state # "idle"
    /\ currentView' = initialView
    /\ calls' = [calls EXCEPT ![i] = [state |-> "pending", tables |-> tables]]
    /\ UNCHANGED << colorSpecByKey, theme, chart, allSlices, allXLabels, slices, xLabels,
                    quotaKeySet, source, filters, hiddenLegendCarriers,
                    hiddenLegendCarrierGroups, datasets, yearlyVars, instances >>

\* A fetch of the call is rejected: the call throws at its await.
FailRender(i) ==
    /\ calls[i].state = "pending"
    /\ calls' = [calls EXCEPT ![i].state = "failed"]
    /\ UNCHANGED << colorSpecByKey, theme, chart, currentView, allSlices, allXLabels, slices,
                    xLabels, quotaKeySet, source, filters, hiddenLegendCarriers,
                    hiddenLegendCarrierGroups, datasets, yearlyVars, instances >>

\* renderCoverageChart after its await, up to the new Chart: the cache is
\* replaced by one built from the call's tables, drawn in the current view.
CacheOfCall(i) ==
    LET rows == calls[i].tables.rows
        built == buildSlices(rows)
        keySet == QuotaKeySetOfLoad(rows, calls[i].tables.column, built)
        reset == [InitialFilters EXCEPT !.annualized = filters.annualized]
        applied == [reset EXCEPT !.policyLimitType = DefaultPolicyLimitType(built)]
        filtered == FilteredSlices(built, applied)
    IN  /\ calls[i].state = "pending"
        /\ calls' = [calls EXCEPT ![i].state = "done"]
        /\ source' = calls[i].tables
        /\ allSlices' = built
        /\ allXLabels' = buildXLabels(rows)
        /\ quotaKeySet' = keySet
        /\ filters' = applied
        /\ slices' = filtered
        /\ xLabels' = FilteredXLabels(buildXLabels(rows), filtered, applied)
        /\ datasets' = buildDatasetsForView(filtered, currentView, keySet, applied,
                                            hiddenLegendCarriers, hiddenLegendCarrierGroups)
        /\ chart' = TRUE
        /\ UNCHANGED << colorSpecByKey, theme, currentView, hiddenLegendCarriers,
                        hiddenLegendCarrierGroups, yearlyVars >>

\* A completion that draws its chart without destroying the one on the canvas.
CompleteRenderKeepingOldChart(i) ==
    /\ CacheOfCall(i)
    /\ instances' = Append(instances, [call |-> i, tables |-> calls[i].tables,
                                       destroyed |-> FALSE])

\* The files of call i arrive: if (chart) chart.destroy(); chart = new Chart.
\* chart is the Chart created last.
CompleteRender(i) ==
    /\ CacheOfCall(i)
    /\ instances' = Append(IF chart
                           THEN [instances EXCEPT ![Len(instances)].destroyed = TRUE]
                           ELSE instances,
                           [call |-> i, tables |-> calls[i].tables, destroyed |-> FALSE])

NextAsync ==
    \/ \E i \in 1..MaxCalls, v \in Views, tables \in AsyncTables : BeginRender(i, v, tables)
    \/ \E i \in 1..MaxCalls : CompleteRender(i)
    \/ \E i \in 1..MaxCalls : FailRender(i)
    \/ \E v \in Views : SetView(v)
    \/ \E enabled \in BOOLEAN : SetAnnualizedMode(enabled)
    \/ \E insuranceProgram \in ProgramInputs : SetInsuranceProgramFilter(insuranceProgram)
    \/ LegendClick("Acme")

SpecAsync == InitAsync /\ [][NextAsync]_vars

(***************************************************************************)
(* SpecLimitTypes: tables of three policies, each of any limit type or     *)
(* none, in a session of limit-type, program and year-range selections.    *)
(***************************************************************************)
LimitTypeTables ==
    { [rows |-> << [PolicyCatalogue[1] EXCEPT !.policyLimitType = a],
                   [PolicyCatalogue[2] EXCEPT !.policyLimitType = b],
                   [PolicyCatalogue[5] EXCEPT !.policyLimitType = c] >>,
       column |-> [header |-> "PolicyNotes", value |-> "renewed 50"]] :
      a \in LimitTypeInputs \cup {"Products"}, b \in LimitTypeInputs \cup {"Products"},
      c \in LimitTypeInputs \cup {"Products"} }

InitLimitTypes ==
    /\ colorSpecByKey = EmptyTable
    /\ theme = "dark"
    /\ chart = FALSE
    /\ currentView = "carrier"
    /\ allSlices = <<>> /\ allXLabels = <<>> /\ slices = <<>> /\ xLabels = <<>>
    /\ quotaKeySet = {}
    /\ source \in LimitTypeTables
    /\ filters = InitialFilters
    /\ hiddenLegendCarriers = {} /\ hiddenLegendCarrierGroups = {}
    /\ datasets = <<>>
    /\ cachedPolicies = <<>> /\ yearlyView = "carrier" /\ activeChart = NoActiveChart
    /\ calls = NoCalls /\ instances = <<>>

NextLimitTypes ==
    \/ \E v \in InitialViews : RenderCoverageChart(v)
    \/ \E t \in LimitTypeInputs \cup {"Products"} : SetPolicyLimitTypeFilter(t)
    \/ ResetPolicyLimitTypeFilter
    \/ \E p \in ProgramInputs : SetInsuranceProgramFilter(p)
    \/ \E s \in Years : \E e \in Years : SetYearRange(s, e)
    \/ ResetYearRange

SpecLimitTypes == InitLimitTypes /\ [][NextLimitTypes]_vars

(***************************************************************************)
(* SpecRows: what a load builds from its tables.  The tables hold any rows *)
(* of the full catalogue, in catalogue order or in the opposite order; the *)
(* chart is rendered and looked at in every view, merged or annualized.    *)
(***************************************************************************)
RowLoads ==
    {picked \in SUBSET (1..Len(FullCatalogue)) : Cardinality(picked) <= MaxPolicies}

InitRows ==
    /\ colorSpecByKey = EmptyTable
    /\ theme = "dark"
    /\ chart = FALSE
    /\ currentView = "carrier"
    /\ allSlices = <<>> /\ allXLabels = <<>> /\ slices = <<>> /\ xLabels = <<>>
    /\ quotaKeySet = {}
    /\ source \in {[rows |-> rows, column |-> column] :
                        rows \in UNION {{RowsFrom(1, picked), Reverse(RowsFrom(1, picked))} :
                                           picked \in RowLoads},
                        column \in ExtraColumns}
    /\ filters = InitialFilters
    /\ hiddenLegendCarriers = {} /\ hiddenLegendCarrierGroups = {}
    /\ datasets = <<>>
    /\ cachedPolicies = <<>> /\ yearlyView = "carrier" /\ activeChart = NoActiveChart
    /\ calls = NoCalls /\ instances = <<>>

NextRows ==
    \/ \E v \in InitialViews : RenderCoverageChart(v)
    \/ \E v \in Views : SetView(v)
    \/ \E enabled \in BOOLEAN : SetAnnualizedMode(enabled)

SpecRows == InitRows /\ [][NextRows]_vars

(***************************************************************************)
(* SpecSignals: the tables hold one policy, with any combination of cells  *)
(* in the columns the availability classifier reads.                       *)
(***************************************************************************)
SignalInputs ==
    [solvency : SolvencyValues, collectible : FlagValues, insolvent : FlagValues,
     status : StatusValues, cstatus : StatusValues]

InitSignals ==
    /\ colorSpecByKey = EmptyTable
    /\ theme = "dark"
    /\ chart = FALSE
    /\ currentView = "carrier"
    /\ allSlices = <<>> /\ allXLabels = <<>> /\ slices = <<>> /\ xLabels = <<>>
    /\ quotaKeySet = {}
    /\ source \in {[rows |-> <<[PolicyCatalogue[1] EXCEPT !.signals = sg]>>,
                     column |-> [header |-> "PolicyNotes", value |-> "renewed 50"]] :
                        sg \in SignalInputs}
    /\ filters = InitialFilters
    /\ hiddenLegendCarriers = {} /\ hiddenLegendCarrierGroups = {}
    /\ datasets = <<>>
    /\ cachedPolicies = <<>> /\ yearlyView = "carrier" /\ activeChart = NoActiveChart
    /\ calls = NoCalls /\ instances = <<>>

NextSignals ==
    \/ \E v \in InitialViews : RenderCoverageChart(v)
    \/ \E v \in Views : SetView(v)

SpecSignals == InitSignals /\ [][NextSignals]_vars

(***************************************************************************)
(* SpecYearly: the yearly chart (CoverageChart/CoverageChart.js), which    *)
(* draws one bar per inception year from policy rows handed to it.  A cell *)
(* of a row is <<>> when blank and <<n>> when it holds the number n; the   *)
(* four columns of a row that make its quota layer key are one field.      *)
(***************************************************************************)
MIN_YEAR == 1974

NoInceptYear == 0

YearlyCatalogue ==
    << [Incept |-> MIN_YEAR, Carrier |-> "Acme", CarrierGroup |-> "Group North",
        perocclim |-> <<4>>, Consume |-> <<1>>, TotCost |-> <<>>,
        bquotashr |-> 1, layerKey |-> "L1"],
       [Incept |-> MIN_YEAR, Carrier |-> "Borealis", CarrierGroup |-> "Group South",
        perocclim |-> <<2>>, Consume |-> <<>>, TotCost |-> <<3>>,
        bquotashr |-> 1, layerKey |-> "L1"],
       [Incept |-> MIN_YEAR + 1, Carrier |-> "Acme", CarrierGroup |-> "Group North",
        perocclim |-> <<2>>, Consume |-> <<0>>, TotCost |-> <<2>>,
        bquotashr |-> 1, layerKey |-> "L2"],
       [Incept |-> MIN_YEAR, Carrier |-> "Cobalt", CarrierGroup |-> "Group South",
        perocclim |-> <<2>>, Consume |-> <<-1>>, TotCost |-> <<>>,
        bquotashr |-> 1, layerKey |-> "L3"],
       [Incept |-> MIN_YEAR + 1, Carrier |-> "Cobalt", CarrierGroup |-> "Group South",
        perocclim |-> <<-2>>, Consume |-> <<>>, TotCost |-> <<>>,
        bquotashr |-> 1, layerKey |-> "L3"],
       [Incept |-> NoInceptYear, Carrier |-> "Cobalt", CarrierGroup |-> "Group South",
        perocclim |-> <<1>>, Consume |-> <<1>>, TotCost |-> <<>>,
        bquotashr |-> 0, layerKey |-> "L4"],
       [Incept |-> MIN_YEAR - 1, Carrier |-> "Borealis", CarrierGroup |-> "Group South",
        perocclim |-> <<>>, Consume |-> <<1>>, TotCost |-> <<>>,
        bquotashr |-> 0, layerKey |-> "L4"] >>

\* The policy rows a caller hands over: any catalogue rows, in catalogue order.
RECURSIVE YearlyRowsFrom(_, _)
YearlyRowsFrom(i, picked) ==
    IF i > Len(YearlyCatalogue) THEN <<>>
    ELSE (IF i \in picked THEN <<YearlyCatalogue[i]>> ELSE <<>>) \o YearlyRowsFrom(i + 1, picked)

YearlyLoads ==
    {picked \in SUBSET (1..Len(YearlyCatalogue)) : Cardinality(picked) <= MaxPolicies}

\* parseFloat(String(value).replace(/[$,]/g, "")) || 0, and 0 for a blank cell
parseLimit(cell) == IF cell = <<>> THEN 0 ELSE cell[1]

\* The year in the Incept cell, null (here 0) when it holds none.
parseYear(incept) == incept

\* policy.Consume when it is not blank, else policy.TotCost when it is not
\* blank, else 0.
consumedRawOf(policy) ==
    IF policy.Consume # <<>> THEN policy.Consume
    ELSE IF policy.TotCost # <<>> THEN policy.TotCost
    ELSE <<0>>

MathMin(a, b) == IF a <= b THEN a ELSE b

MathMax(a, b) == IF a >= b THEN a ELSE b

\* The unavailable part without the cap at the limit.
unavailableUncapped(sliceLimit, consumed) == MathMax(0, consumed)

\* Math.max(0, Math.min(sliceLimit, consumed))
unavailableOf(sliceLimit, consumed) == MathMax(0, MathMin(sliceLimit, consumed))

\* Math.max(0, sliceLimit - unavailable)
availableOf(sliceLimit, unavailable) == MathMax(0, sliceLimit - unavailable)

\* The rows that have an inception year.
RowsWithYear(policies) == SelectSeq(policies, LAMBDA p : parseYear(p.Incept) # NoInceptYear)

\* filterYears(Array.from(yearSet).sort((a, b) => a - b))
filterYears(yearSet) == Ascending({y \in yearSet : y >= MIN_YEAR})

RECURSIVE SumSeq(_)
SumSeq(q) == IF q = <<>> THEN 0 ELSE Head(q) + SumSeq(Tail(q))

\* The quota details of the rows flagged bquotashr = 1: per year and layer
\* key the participants, largest slice first.
\* participants[i] is the entry pushed for rows[i].
quotaDetailsOf(rows, participants) ==
    LET flagged == {i \in 1..Len(rows) : rows[i].bquotashr = 1}
        keyOfRow(i) == <<parseYear(rows[i].Incept), rows[i].layerKey>>
    IN  [k \in {keyOfRow(i) : i \in flagged} |->
            LET members == Ascending({i \in flagged : keyOfRow(i) = k})
                parts == [n \in 1..Len(members) |-> participants[members[n]]]
            IN  StableSort(parts, {ij \in IndexPairs(parts) :
                                      parts[ij[1]].sliceLimit > parts[ij[2]].sliceLimit})]

buildAvailabilityView(policies) ==
    LET rows == RowsWithYear(policies)
        years == filterYears({parseYear(p.Incept) : p \in SeqRange(rows)})
        unavailable(p) == unavailableOf(parseLimit(p.perocclim), parseLimit(consumedRawOf(p)))
        available(p) == availableOf(parseLimit(p.perocclim), unavailable(p))
        ofYear(y) == SelectSeq(rows, LAMBDA p : parseYear(p.Incept) = y)
        availableIn(y) == [i \in 1..Len(ofYear(y)) |-> available(ofYear(y)[i])]
        unavailableIn(y) == [i \in 1..Len(ofYear(y)) |-> unavailable(ofYear(y)[i])]
        participant(p) ==
            [ carrier |-> p.Carrier,
              bucketLabel |-> "Quota Share Slice",
              sliceLimit |-> parseLimit(p.perocclim),
              consumed |-> parseLimit(consumedRawOf(p)),
              available |-> available(p),
              unavailable |-> unavailable(p) ]
    IN  [ live |-> TRUE,
          labels |-> years,
          datasets |->
              << [ label |-> "Available",
                   data |-> [i \in 1..Len(years) |-> SumSeq(availableIn(years[i]))] ],
                 [ label |-> "Unavailable",
                   data |-> [i \in 1..Len(years) |-> SumSeq(unavailableIn(years[i]))] ] >>,
          quotaDetailsByYear |->
              quotaDetailsOf(rows, [i \in 1..Len(rows) |-> participant(rows[i])]) ]

buildGroupedView(policies, useGroup) ==
    LET rows == RowsWithYear(policies)
        years == filterYears({parseYear(p.Incept) : p \in SeqRange(rows)})
        bucketOf(p) == IF useGroup THEN p.CarrierGroup ELSE p.Carrier
        names == FirstOccurrences([i \in 1..Len(rows) |-> bucketOf(rows[i])])
        \* Object.keys(bucketMap).sort(): code-unit order, which on the names
        \* of the catalogue is their alphabetical order
        buckets == StableSort(names, {ij \in IndexPairs(names) :
                                         localeCompareLess(names[ij[1]], names[ij[2]])})
        limitsOf(b, y) ==
            LET cell == SelectSeq(rows, LAMBDA p : bucketOf(p) = b /\ parseYear(p.Incept) = y)
            IN  [i \in 1..Len(cell) |-> parseLimit(cell[i].perocclim)]
        participant(p) ==
            [ carrier |-> p.Carrier,
              bucketLabel |-> bucketOf(p),
              sliceLimit |-> parseLimit(p.perocclim) ]
    IN  [ live |-> TRUE,
          labels |-> years,
          datasets |->
              [b \in 1..Len(buckets) |->
                  [ label |-> buckets[b],
                    data |-> [i \in 1..Len(years) |->
                                 SumSeq(limitsOf(buckets[b], years[i]))] ]],
          quotaDetailsByYear |->
              quotaDetailsOf(rows, [i \in 1..Len(rows) |-> participant(rows[i])]) ]

buildDatasets(policies, view) ==
    IF view = "availability" THEN buildAvailabilityView(policies)
    ELSE IF view = "group" THEN buildGroupedView(policies, TRUE)
    ELSE buildGroupedView(policies, FALSE)

YearlyViews == {"carrier", "group", "availability"}

InitYearly ==
    /\ colorSpecByKey = EmptyTable
    /\ theme = "dark"
    /\ chart = FALSE
    /\ currentView = "carrier"
    /\ allSlices = <<>> /\ allXLabels = <<>> /\ slices = <<>> /\ xLabels = <<>>
    /\ quotaKeySet = {}
    /\ source = [rows |-> <<>>, column |-> [header |-> "", value |-> ""]]
    /\ filters = InitialFilters
    /\ hiddenLegendCarriers = {} /\ hiddenLegendCarrierGroups = {}
    /\ datasets = <<>>
    /\ cachedPolicies = <<>> /\ yearlyView = "carrier" /\ activeChart = NoActiveChart
    /\ calls = NoCalls /\ instances = <<>>

\* renderCoverageChart({elementId, policies}) of the yearly chart
YearlyRenderCoverageChart(policies) ==
    /\ cachedPolicies' = policies
    /\ activeChart' = buildDatasets(policies, yearlyView)
    /\ UNCHANGED << colorSpecByKey, theme, chart, currentView, allSlices, allXLabels, slices,
                    xLabels, quotaKeySet, source, filters, hiddenLegendCarriers,
                    hiddenLegendCarrierGroups, datasets, yearlyView, asyncVars >>

\* setView(view) of the yearly chart: updateChart returns at once without a
\* chart.
YearlySetView(view) ==
    /\ yearlyView' = view
    /\ activeChart' = IF activeChart.live THEN buildDatasets(cachedPolicies, view)
                      ELSE activeChart
    /\ UNCHANGED << colorSpecByKey, theme, chart, currentView, allSlices, allXLabels, slices,
                    xLabels, quotaKeySet, source, filters, hiddenLegendCarriers,
                    hiddenLegendCarrierGroups, datasets, cachedPolicies, asyncVars >>

NextYearly ==
    \/ \E picked \in YearlyLoads : YearlyRenderCoverageChart(YearlyRowsFrom(1, picked))
    \/ \E view \in YearlyViews : YearlySetView(view)

SpecYearly == InitYearly /\ [][NextYearly]_vars

(***************************************************************************)
(* Properties of the colour-slot table (checked under SpecColor).          *)
(***************************************************************************)
Themes == {"light", "dark"}

AllRawInputs == UNION {RawInputs(i) : i \in LabelIndex}

KeyOfRaw == [raw \in AllRawInputs |-> NormalizeLabel(raw)]

KnownRaw(table) == {raw \in AllRawInputs : KeyOfRaw[raw] \in DOMAIN table}

AllKeys == {LabelAt(i) : i \in LabelIndex}

SeedOfKey == [k \in AllKeys |-> seedSlot(k)]

SlotsKept == \A k \in DOMAIN colorSpecByKey :
                 k \in DOMAIN colorSpecByKey' /\ colorSpecByKey'[k] = colorSpecByKey[k]

DistinctSeeds(table) ==
    \A k1, k2 \in DOMAIN table : k1 # k2 => SeedOfKey[k1] # SeedOfKey[k2]

\* C6 (as stated): a label's colour does not depend on the order in which
\* the labels were first requested; in particular every label has, under
\* either theme, the colour it gets in the run that requests it first.
C6_OrderIndependentColor ==
    \A k \in DOMAIN colorSpecByKey : \A t \in Themes :
        PaletteColor(t, colorSpecByKey[k]) = ColorReturned(EmptyTable, t, k)

\* C6 (amended): after any step, a further call for a label that already
\* held a slot returns, under the theme then active and however the label is
\* spelled, the colour of the slot it held before the step; and as long as
\* the requested labels seed pairwise distinct slots every label sits on its
\* seed slot, whatever the request order was.
C6_StableColorPerLabel ==
    /\ [][\A raw \in KnownRaw(colorSpecByKey) :
             ColorReturned(colorSpecByKey', theme', raw)
               = PaletteColor(theme', colorSpecByKey[KeyOfRaw[raw]])]_vars
    /\ [](DistinctSeeds(colorSpecByKey) =>
             \A k \in DOMAIN colorSpecByKey : colorSpecByKey[k] = SeedOfKey[k])

\* C6 witness: two labels that seed the same slot are both in the table, one
\* of them moved off its seed, and a label has been requested again.
C6_Witness ==
    /\ ~DistinctSeeds(colorSpecByKey)
    /\ \E k \in DOMAIN colorSpecByKey : colorSpecByKey[k] # SeedOfKey[k]
    /\ theme = "light"

\* C7: the table only grows; a label seen for the first time gets a slot no
\* other label holds whenever a free slot exists; a slot once held is never
\* changed or removed by a later call or theme change.
C7_GrowOnlyCollisionFree ==
    [][/\ SlotsKept
       /\ \A k \in DOMAIN colorSpecByKey' \ DOMAIN colorSpecByKey :
             usedSlots(colorSpecByKey) # Slots =>
                 /\ colorSpecByKey'[k] \in Slots
                 /\ colorSpecByKey'[k] \notin usedSlots(colorSpecByKey)]_vars

\* C7 witness: a label was probed away from its seed onto a free slot and a
\* single free slot is left.
C7_Witness ==
    /\ Cardinality(DOMAIN colorSpecByKey) = paletteSize - 1
    /\ Cardinality(usedSlots(colorSpecByKey)) = paletteSize - 1
    /\ \E k \in DOMAIN colorSpecByKey : colorSpecByKey[k] # SeedOfKey[k]

\* C8 (as stated): a label requested when every palette slot is reserved is
\* not handed a slot reserved for another label, so no two labels ever share
\* a slot.
C8_NoSharedSlotWhenExhausted ==
    \A k1, k2 \in DOMAIN colorSpecByKey :
        k1 # k2 => colorSpecByKey[k1] # colorSpecByKey[k2]

\* C9: a theme switch keeps every label's slot, and under either theme the
\* colour of a known label is the entry of that theme's table at the label's
\* one slot index.
C9_ThemeSharesSlots ==
    /\ [][theme' # theme => SlotsKept]_vars
    /\ [](\A raw \in KnownRaw(colorSpecByKey) :
             LET slot == colorSpecByKey[KeyOfRaw[raw]]
             IN  /\ ColorReturned(colorSpecByKey, "light", raw) = distinctPaletteLight[slot + 1]
                 /\ ColorReturned(colorSpecByKey, "dark", raw) = distinctPaletteDark[slot + 1])

\* C9 witness: the theme has been switched to light with labels in the table.
C9_Witness ==
    /\ theme = "light"
    /\ Cardinality(DOMAIN colorSpecByKey) >= 2

(***************************************************************************)
(* Properties of the emitted datasets (checked under Spec).                *)
(***************************************************************************)
\* The periods of the half-open axis interval [lo, hi).
Periods(lo, hi) == lo..(hi - 1)

\* The tables of the session show quota-share evidence.
QuotaEvidence == hasExplicitQuotaShareEvidence(source.rows, source.column)

\* The slices the last rebuild worked on.
Visible == VisibleSlices(slices, currentView, hiddenLegendCarriers, hiddenLegendCarrierGroups)

DatasetIndex == 1..Len(datasets)

PointIndex(g) == 1..Len(datasets[g].data)

\* The visible slices of display group g at attachment point a.
SlicesOfPair(g, a) ==
    SelectSeq(Visible, LAMBDA sl : keyOf(sl, currentView, quotaKeySet) = g /\ sl.attach = a)

\* The visible slices of the bucket (g, a, k), k a quota group key or none.
SlicesOfBucket(g, a, k) ==
    SelectSeq(SlicesOfPair(g, a),
              LAMBDA sl : BucketQuotaKey(sl, currentView, quotaKeySet) = k)

SpanOfSlices(q) == UNION {Periods(q[i].xStartValue, q[i].xEndValue) : i \in 1..Len(q)}

SpanOfPoints(g, I) == UNION {Periods(datasets[g].data[i].xStart, datasets[g].data[i].xEnd) : i \in I}

Disjoint(g, I) ==
    \A i \in I : \A j \in I :
        i < j => Periods(datasets[g].data[i].xStart, datasets[g].data[i].xEnd)
                   \cap Periods(datasets[g].data[j].xStart, datasets[g].data[j].xEnd) = {}

Attachments == {PolicyCatalogue[i].attach : i \in CatalogueIndex}

QuotaKeysOf(g, a) ==
    {BucketQuotaKey(sl, currentView, quotaKeySet) : sl \in SeqRange(SlicesOfPair(g, a))}
        \cup {NoQuotaKey}

CoveringSlices(g, pt, t) ==
    SelectSeq(SlicesOfBucket(datasets[g].label, pt.attach, pt.quotaGroupKey),
              LAMBDA sl : sl.xStartValue <= t /\ t < sl.xEndValue)

\* C2: at every period t inside a point's span, top - attach is the sum of
\* sliceLimit over the slices of the point's bucket that cover t, and the
\* point's participants are those slices, each once; with and without the
\* annualized mode.
C2_Conservation ==
    chart =>
        \A g \in DatasetIndex : \A i \in PointIndex(g) :
            LET pt == datasets[g].data[i]
            IN  /\ pt.xStart < pt.xEnd
                /\ pt.annualized = filters.annualized
                /\ \A t \in Periods(pt.xStart, pt.xEnd) :
                       LET covering == CoveringSlices(g, pt, t)
                       IN  /\ pt.top - pt.attach = SumLimits(covering)
                           /\ pt.sumLimit = SumLimits(covering)
                           /\ Len(pt.participants) = Len(covering)
                           /\ \A sl \in SeqRange(covering) :
                                  Cardinality({n \in 1..Len(pt.participants) :
                                      /\ pt.participants[n].pid = sl.PolicyID
                                      /\ pt.participants[n].sliceLimit = sl.sliceLimit}) = 1

\* C2 witness: a merged point of two participants that spans several periods
\* while another slice of the same display group and attachment is left out.
C2_Witness ==
    /\ chart
    /\ ~filters.annualized
    /\ \E g \in DatasetIndex : \E i \in PointIndex(g) :
           LET pt == datasets[g].data[i]
           IN  /\ Len(pt.participants) >= 2
               /\ pt.xEnd - pt.xStart >= 2
               /\ Len(SlicesOfPair(datasets[g].label, pt.attach)) > Len(pt.participants)

\* C2 witness in annualized mode: a point of two participants.
C2_WitnessAnnualized ==
    /\ chart
    /\ filters.annualized
    /\ \E g \in DatasetIndex : \E i \in PointIndex(g) :
           Len(datasets[g].data[i].participants) >= 2

DistinctPolicies(q, k) ==
    Cardinality({q[i].PolicyID : i \in {n \in 1..Len(q) : quotaGroupKey(q[n]) = k}})

\* The points that draw slice sl: its policy is a participant and the point
\* lies inside the slice's span at the slice's attachment point.
PointsDrawing(sl) ==
    {<<g, i>> \in UNION {{<<h, n>> : n \in PointIndex(h)} : h \in DatasetIndex} :
        LET pt == datasets[g].data[i]
        IN  /\ pt.attach = sl.attach
            /\ sl.xStartValue <= pt.xStart /\ pt.xEnd <= sl.xEndValue
            /\ \E n \in 1..Len(pt.participants) : pt.participants[n].pid = sl.PolicyID}

\* C3 as stated, for loads with quota evidence shown in a carrier view: a
\* visible slice whose quota group key has two or more distinct policies in
\* the filtered slice set is drawn in points flagged isQuotaShare, and one
\* whose key has exactly one policy there is drawn in points not flagged.
C3_QuotaSymmetry ==
    (chart /\ currentView \in CarrierViews /\ QuotaEvidence) =>
        \A sl \in SeqRange(Visible) : \A gi \in PointsDrawing(sl) :
            LET pt == datasets[gi[1]].data[gi[2]]
                n == DistinctPolicies(slices, quotaGroupKey(sl))
            IN  /\ n >= 2 => pt.isQuotaShare
                /\ n = 1 => ~pt.isQuotaShare

\* C4 as stated, in a carrier view: once filters and legend toggles leave a
\* single policy of a quota group key among the slices a rebuild works on,
\* that policy is drawn outside the "Quota share" bucket and not flagged.
C4_QuotaRecomputedOnRebuild ==
    (chart /\ currentView \in CarrierViews) =>
        \A sl \in SeqRange(Visible) : \A gi \in PointsDrawing(sl) :
            DistinctPolicies(Visible, quotaGroupKey(sl)) = 1 =>
                /\ datasets[gi[1]].label # "Quota share"
                /\ ~datasets[gi[1]].data[gi[2]].isQuotaShare

C10_NonQuotaDrawnSeparately ==
    chart =>
        \A g \in DatasetIndex : \A i \in PointIndex(g) :
            LET pt == datasets[g].data[i]
                covering == CoveringSlices(g, pt, pt.xStart)
            IN  (\A sl \in SeqRange(covering) : quotaGroupKey(sl) \notin quotaKeySet) =>
                    /\ Len(pt.participants) = 1
                    /\ pt.top = pt.attach + pt.participants[1].sliceLimit

\* The final segment a point was drawn from.
SegmentOfPoint(pt) ==
    [ segStart |-> pt.xStart,
      segEnd |-> pt.xEnd,
      segLimit |-> pt.sumLimit,
      participants |-> pt.participants,
      hasSelectionMatch |-> pt.isHighlighted,
      signature |-> Signature(pt.participants) ]

\* The final segments of the bucket (attach a, quota group key k) of dataset
\* g, in time order.
SegmentsOfBucket(g, a, k) ==
    LET pts == SelectSeq(datasets[g].data, LAMBDA pt : pt.attach = a /\ pt.quotaGroupKey = k)
    IN  [i \in 1..Len(pts) |-> SegmentOfPoint(pts[i])]

\* What the chart would hold after one more rebuild with nothing changed.
Rebuilt ==
    buildDatasetsForView(slices, currentView, quotaKeySet, filters,
                         hiddenLegendCarriers, hiddenLegendCarrierGroups)

\* C11: outside the annualized mode, merging the final segments of a bucket
\* again changes nothing, no two final segments of one bucket that touch in
\* time have the same participant signature and the same summed limit, and
\* building the datasets again from the same slices, view and filters gives
\* the datasets the chart holds.
C11_MergeIdempotent ==
    (chart /\ ~filters.annualized) =>
        /\ \A g \in DatasetIndex : \A i \in PointIndex(g) :
               LET pt == datasets[g].data[i]
                   segs == SegmentsOfBucket(g, pt.attach, pt.quotaGroupKey)
               IN  /\ MergeSegments(segs) = segs
                   /\ \A n \in 1..(Len(segs) - 1) :
                          segs[n].segEnd = segs[n + 1].segStart =>
                              \/ segs[n].signature # segs[n + 1].signature
                              \/ segs[n].segLimit # segs[n + 1].segLimit
        /\ datasets = Rebuilt

\* C11 witness: a point merged over a year boundary, and in another bucket
\* two points that touch in time and differ in their participants.
C11_Witness ==
    /\ chart
    /\ ~filters.annualized
    /\ \E g \in DatasetIndex : \E i \in PointIndex(g) :
           LET pt == datasets[g].data[i]
           IN  getUTCFullYear(pt.xStart) < getUTCFullYear(pt.xEnd - 1)
    /\ \E g \in DatasetIndex : \E i \in PointIndex(g) : \E j \in PointIndex(g) :
           LET pi == datasets[g].data[i]
               pj == datasets[g].data[j]
           IN  /\ pi.attach = pj.attach /\ pi.quotaGroupKey = pj.quotaGroupKey
               /\ pi.xEnd = pj.xStart
               /\ Len(pi.participants) # Len(pj.participants)

(***************************************************************************)
(* Properties of a load (checked under SpecRows).                          *)
(***************************************************************************)
\* The datasets the same tables give with their rows in the opposite order.
OtherOrderDatasets ==
    LET all == buildSlices(Reverse(source.rows))
    IN  buildDatasetsForView(FilteredSlices(all, filters), currentView, quotaKeySet, filters,
                             hiddenLegendCarriers, hiddenLegendCarrierGroups)

\* Participants run from the largest limit down, equal limits by carrier name.
LargestFirst(participants) ==
    \A n \in 1..(Len(participants) - 1) :
        LET a == participants[n]
            b == participants[n + 1]
        IN  \/ a.sliceLimit > b.sliceLimit
            \/ a.sliceLimit = b.sliceLimit /\ ~localeCompareLess(b.carrier, a.carrier)

\* C12 as stated: the participants of every quota-share point run from the
\* largest limit down, equal limits by carrier name, and the point of the
\* same bucket and span built from the same rows in another order lists the
\* same participants in the same order.
C12_ParticipantOrder ==
    chart =>
        \A g \in DatasetIndex : \A i \in PointIndex(g) :
            LET pt == datasets[g].data[i]
                other == OtherOrderDatasets
            IN  pt.isQuotaShare =>
                    /\ LargestFirst(pt.participants)
                    /\ \A h \in 1..Len(other) : \A j \in 1..Len(other[h].data) :
                           LET po == other[h].data[j]
                           IN  (/\ other[h].label = datasets[g].label
                                /\ po.attach = pt.attach
                                /\ po.quotaGroupKey = pt.quotaGroupKey
                                /\ po.xStart = pt.xStart /\ po.xEnd = pt.xEnd)
                               => po.participants = pt.participants

(***************************************************************************)
(* Properties of the availability classifier (checked under SpecSignals).  *)
(***************************************************************************)
\* What signal k says about a policy: a classification, or "none" when the
\* signal does not match.  1 carrier solvency field, 2 policy collectible
\* flag, 3 policy insolvent flag, 4 policy status text, 5 carrier status text.
SignalClass(k, sg) ==
    CASE k = 1 -> IF sg.solvency = "" THEN "none"
                  ELSE IF solvencyLooksInsolvent(sg.solvency) THEN "Unavailable"
                  ELSE IF solvencyLooksSolvent(sg.solvency) THEN "Available"
                  ELSE IF isFalseFlag(sg.solvency) THEN "Unavailable"
                  ELSE IF isTrueFlag(sg.solvency) THEN "Available"
                  ELSE "none"
      [] k = 2 -> IF isFalseFlag(sg.collectible) THEN "Unavailable"
                  ELSE IF isTrueFlag(sg.collectible) THEN "Available"
                  ELSE "none"
      [] k = 3 -> IF isTrueFlag(sg.insolvent) THEN "Unavailable" ELSE "none"
      [] k = 4 -> IF statusLooksUnavailable(sg.status) THEN "Unavailable" ELSE "none"
      [] k = 5 -> IF statusLooksUnavailable(sg.cstatus) THEN "Unavailable" ELSE "none"

SignalOrder == 1..5

Matching(sg) == {k \in SignalOrder : SignalClass(k, sg) # "none"}

\* The rows of the tables that carry the policy of slice sl.
RowsOfSlice(sl) == {r \in SeqRange(source.rows) : r.PolicyID = sl.PolicyID}

\* C13: the availability of every slice is the classification of the first
\* signal, in the order 1 .. 5, that matches its policy, whatever the later
\* signals say, and Available when no signal matches; a carrier solvency
\* field reading insolvent gives Unavailable.
C13_FirstSignalWins ==
    \A i \in 1..Len(allSlices) : \A r \in RowsOfSlice(allSlices[i]) :
        LET sg == r.signals
            av == allSlices[i].availability
        IN  /\ \A k \in Matching(sg) :
                   (\A j \in Matching(sg) : k <= j) => av = SignalClass(k, sg)
            /\ Matching(sg) = {} => av = "Available"
            /\ sg.solvency = "Insolvent" => av = "Unavailable"

\* C13 witness: a slice whose policy has two matching signals that disagree,
\* the earlier one saying Unavailable.
C13_Witness ==
    /\ chart
    /\ \E i \in 1..Len(allSlices) : \E r \in RowsOfSlice(allSlices[i]) :
           /\ allSlices[i].availability = "Unavailable"
           /\ \E k \in Matching(r.signals) : \E j \in Matching(r.signals) :
                  /\ k < j
                  /\ SignalClass(k, r.signals) = "Unavailable"
                  /\ SignalClass(j, r.signals) = "Available"

(***************************************************************************)
(* Properties of buildSlices (checked under SpecRows).                     *)
(***************************************************************************)
\* A limits row that can be placed: it has a positive limit and its policy
\* has a dates record with both dates.
Placeable(r) == r.start # NoDate /\ r.end # NoDate /\ r.limit > 0

FirstDay(r) == IF r.start <= r.end THEN r.start ELSE r.end

LastDay(r) == IF r.start <= r.end THEN r.end ELSE r.start

\* The calendar years the policy of row r touches.
TouchedYears(r) == getUTCFullYear(FirstDay(r))..getUTCFullYear(LastDay(r))

\* The slices of limits row r (a policy id and a limit) in year y.
SlicesOfRowInYear(r, y) ==
    {i \in 1..Len(allSlices) : /\ allSlices[i].PolicyID = r.PolicyID
                               /\ allSlices[i].sliceLimit = r.limit
                               /\ allSlices[i].year = y}

\* C14: every placeable limits row has exactly one slice in each calendar
\* year its policy touches and none in any other year; the slice carries the
\* row's full limit and spans the policy's overlap with that year, inside the
\* year's interval on the axis.  The policy that runs from the middle of one
\* year to the middle of the next, alone in the tables, gives two slices of
\* the full limit, from its first day to the year's end and from the year's
\* start to its last day, and no point of it is flagged quota-share.
C14_OneSlicePerTouchedYear ==
    chart =>
        /\ \A r \in SeqRange(source.rows) : Placeable(r) =>
               \A y \in Years :
                   IF y \in TouchedYears(r)
                   THEN /\ Cardinality(SlicesOfRowInYear(r, y)) = 1
                        /\ \A i \in SlicesOfRowInYear(r, y) :
                               LET sl == allSlices[i]
                                   from == IF FirstDay(r) >= startOfYearUTC(y)
                                           THEN FirstDay(r) ELSE startOfYearUTC(y)
                                   to == IF LastDay(r) <= endOfYearUTC(y)
                                         THEN LastDay(r) ELSE endOfYearUTC(y)
                               IN  /\ sl.xStartValue = from
                                   /\ sl.xEndValue = to + 1
                                   /\ startOfYearUTC(y) <= sl.xStartValue
                                   /\ sl.xStartValue < sl.xEndValue
                                   /\ sl.xEndValue <= startOfNextYearUTC(y)
                   ELSE SlicesOfRowInYear(r, y) = {}
        /\ source.rows = <<PolicyCatalogue[4]>> =>
               /\ Len(allSlices) = 2
               /\ allSlices[1].year = 0 /\ allSlices[2].year = 1
               /\ allSlices[1].xStartValue = YearLen - 1
               /\ allSlices[1].xEndValue = startOfNextYearUTC(0)
               /\ allSlices[2].xStartValue = startOfYearUTC(1)
               /\ allSlices[2].xEndValue = YearLen + 1
               /\ \A i \in 1..2 : /\ allSlices[i].sliceLimit = PolicyCatalogue[4].limit
                                  /\ ~isQuotaSlice(allSlices[i], quotaKeySet)
               /\ \A g \in DatasetIndex : \A i \in PointIndex(g) :
                      ~datasets[g].data[i].isQuotaShare

\* C14 witness: the chart of the tables that hold only the policy running
\* from the middle of year 0 to the middle of year 1, with quota evidence.
C14_Witness ==
    /\ chart
    /\ source.rows = <<PolicyCatalogue[4]>>
    /\ QuotaEvidence
    /\ datasets # <<>>

\* The visible slices under quota group key k.
SlicesOfKey(k) == SelectSeq(Visible, LAMBDA sl : quotaGroupKey(sl) = k)

\* The points drawn for quota group key k.
PointsOfKey(k) ==
    {<<g, i>> \in UNION {{<<h, n>> : n \in PointIndex(h)} : h \in DatasetIndex} :
        datasets[g].data[i].quotaGroupKey = k}

YearlyParticipants ==
    UNION {SeqRange(activeChart.quotaDetailsByYear[k]) : k \in DOMAIN activeChart.quotaDetailsByYear}

\* The rows drawn in the bar of year y.
RowsOfYear(y) == SelectSeq(cachedPolicies, LAMBDA p : parseYear(p.Incept) = y)

LimitOfRow(p) == parseLimit(p.perocclim)

ConsumedOfRow(p) == parseLimit(consumedRawOf(p))

\* The band of dataset d in the bar of year labels[i] is the sum of part over
\* the rows of that year.
BandIsSum(d, i, parts) == activeChart.datasets[d].data[i] = SumSeq(parts)

\* C16 as stated: for every row the unavailable part is min(limit, consumed)
\* and the available part the remainder, neither is negative and they sum to
\* the limit; the bands of a year are the sums of the parts over its rows.
C16_SplitAsStated ==
    (activeChart.live /\ yearlyView = "availability") =>
        /\ \A pt \in YearlyParticipants :
               /\ pt.unavailable = MathMin(pt.sliceLimit, pt.consumed)
               /\ pt.available = pt.sliceLimit - pt.unavailable
               /\ pt.unavailable >= 0 /\ pt.available >= 0
               /\ pt.unavailable + pt.available = pt.sliceLimit
        /\ \A i \in 1..Len(activeChart.labels) :
               LET rows == RowsOfYear(activeChart.labels[i])
               IN  /\ BandIsSum(2, i, [n \in 1..Len(rows) |->
                          MathMin(LimitOfRow(rows[n]), ConsumedOfRow(rows[n]))])
                   /\ BandIsSum(1, i, [n \in 1..Len(rows) |->
                          LimitOfRow(rows[n])
                            - MathMin(LimitOfRow(rows[n]), ConsumedOfRow(rows[n]))])

\* The parts of a row with limit l and consumed amount c, negative amounts
\* counted as 0.
ClampedUnavailable(l, c) == IF l < 0 \/ c < 0 THEN 0 ELSE MathMin(l, c)

ClampedAvailable(l, c) == IF l < 0 THEN 0 ELSE l - ClampedUnavailable(l, c)

\* C16 amended: neither part of a row is ever negative; for a row whose limit
\* and consumed amount are not negative the unavailable part is
\* min(limit, consumed), the available part is the remainder and the two sum
\* to the limit; a negative consumed amount counts as 0 and a negative limit
\* gives two parts of 0; the bands of a year are the sums of these parts over
\* the rows of that year.
C16_SplitClamped ==
    (activeChart.live /\ yearlyView = "availability") =>
        /\ \A pt \in YearlyParticipants :
               /\ pt.unavailable >= 0 /\ pt.available >= 0
               /\ pt.unavailable = ClampedUnavailable(pt.sliceLimit, pt.consumed)
               /\ pt.available = ClampedAvailable(pt.sliceLimit, pt.consumed)
               /\ (pt.sliceLimit >= 0 /\ pt.consumed >= 0) =>
                      /\ pt.unavailable = MathMin(pt.sliceLimit, pt.consumed)
                      /\ pt.unavailable + pt.available = pt.sliceLimit
        /\ Len(activeChart.datasets) = 2
        /\ \A i \in 1..Len(activeChart.labels) :
               LET rows == RowsOfYear(activeChart.labels[i])
               IN  /\ BandIsSum(2, i, [n \in 1..Len(rows) |->
                          ClampedUnavailable(LimitOfRow(rows[n]), ConsumedOfRow(rows[n]))])
                   /\ BandIsSum(1, i, [n \in 1..Len(rows) |->
                          ClampedAvailable(LimitOfRow(rows[n]), ConsumedOfRow(rows[n]))])

\* C16 witness: the availability view of rows among which one has limit 4
\* and consumed 1 (parts 1 and 3), one is consumed beyond its limit and one
\* has a negative consumed amount, the three in the bar of one year.
C16_Witness ==
    /\ activeChart.live /\ yearlyView = "availability"
    /\ \E pt \in YearlyParticipants :
           pt.sliceLimit = 4 /\ pt.consumed = 1 /\ pt.unavailable = 1 /\ pt.available = 3
    /\ \E pt \in YearlyParticipants : pt.consumed > pt.sliceLimit /\ pt.sliceLimit > 0
    /\ \E pt \in YearlyParticipants : pt.consumed < 0
    /\ \E i \in 1..Len(activeChart.labels) : Len(RowsOfYear(activeChart.labels[i])) >= 3

\* C17: every slice of a load has a limit > 0 and a date range with
\* policyStartMs <= policyEndMs; a limits row with a limit <= 0 or whose
\* policy lacks a start or an end date has no slice, and the slices of the
\* load are those the other rows give when such rows are not in the tables.
C17_OnlyPlaceableRows ==
    chart =>
        /\ \A i \in 1..Len(allSlices) :
               /\ allSlices[i].sliceLimit > 0
               /\ allSlices[i].policyStartMs # NoDate /\ allSlices[i].policyEndMs # NoDate
               /\ allSlices[i].policyStartMs <= allSlices[i].policyEndMs
        /\ \A r \in SeqRange(source.rows) :
               ~Placeable(r) =>
                   \A i \in 1..Len(allSlices) :
                       ~(allSlices[i].PolicyID = r.PolicyID /\ allSlices[i].sliceLimit = r.limit)
        /\ allSlices = buildSlices(SelectSeq(source.rows, Placeable))

\* C17 witness: a load whose tables hold a row with limit 0, a row whose
\* policy has no start date and a policy with its dates in the opposite
\* order, which still gives slices.
C17_Witness ==
    /\ chart
    /\ \E r \in SeqRange(source.rows) : r.limit <= 0
    /\ \E r \in SeqRange(source.rows) : r.start = NoDate
    /\ \E r \in SeqRange(source.rows) : Placeable(r) /\ r.start > r.end
    /\ Len(allSlices) >= 3


(***************************************************************************)
(* C18: once the chart exists, whatever view switches and filter setters   *)
(* have run, the cached slices are the loaded slices under the current     *)
(* filters and the drawn datasets are the ones buildDatasetsForView gives  *)
(* for them under the current view, filters and hidden legend entries.     *)
(***************************************************************************)
C18_DatasetsFollowViewAndFilters ==
    chart =>
        /\ slices = FilteredSlices(allSlices, filters)
        /\ datasets = buildDatasetsForView(FilteredSlices(allSlices, filters), currentView,
                                           quotaKeySet, filters, hiddenLegendCarriers,
                                           hiddenLegendCarrierGroups)
        /\ \A g \in DatasetIndex : \A i \in PointIndex(g) :
               datasets[g].data[i].annualized = filters.annualized

\* The availability view of an annualized chart under a date range and a
\* program filter, with something drawn.
C18_Witness ==
    /\ chart
    /\ currentView = "availability"
    /\ filters.startDate # NoFilterDate
    /\ filters.insuranceProgram = "Casualty"
    /\ filters.annualized
    /\ datasets # <<>>


\* A reload, and what it would draw if nothing but the tables, the initial
\* view and the hidden legend entries went into it.
ReloadStep == \E v \in InitialViews : RenderCoverageChart(v)

FreshFilters == [InitialFilters EXCEPT !.policyLimitType =
                                          DefaultPolicyLimitType(buildSlices(source.rows))]

FreshDatasets ==
    buildDatasetsForView(FilteredSlices(buildSlices(source.rows), FreshFilters),
                         currentView', QuotaKeySetOfLoad(source.rows, source.column,
                                                         buildSlices(source.rows)),
                         FreshFilters, hiddenLegendCarriers, hiddenLegendCarrierGroups)

LegendStep == \E value \in LegendValues : LegendClick(value)

(***************************************************************************)
(* C19: a reload, a view switch or a filter change leaves the colour slots *)
(* and the two hidden-legend sets as they were, and a reload derives the   *)
(* slices, the year labels, the quota keys and the datasets from the       *)
(* tables, the initial view and the hidden-legend sets alone: nothing else *)
(* of the state before the reload goes into what it draws.                 *)
(***************************************************************************)
C19_OnlySlotsAndHiddenSurvive ==
    [][ /\ colorSpecByKey' = colorSpecByKey
        /\ LegendStep \/ UNCHANGED << hiddenLegendCarriers, hiddenLegendCarrierGroups >>
        /\ ReloadStep =>
              /\ allSlices' = buildSlices(source.rows)
              /\ allXLabels' = buildXLabels(source.rows)
              /\ slices' = FilteredSlices(buildSlices(source.rows), FreshFilters)
              /\ quotaKeySet' = QuotaKeySetOfLoad(source.rows, source.column,
                                                  buildSlices(source.rows))
              /\ datasets' = FreshDatasets ]_vars


\* The positions of the loaded slices that have quota group key k.
SlicesWithKey(k) == {i \in 1..Len(allSlices) : quotaGroupKey(allSlices[i]) = k}

LoadedKeys == {quotaGroupKey(allSlices[i]) : i \in 1..Len(allSlices)}

(***************************************************************************)
(* C20: after a load with quota-share evidence the quota key set holds     *)
(* exactly the keys of the loaded slices that two slices with different    *)
(* policy ids have; a key that only slices of one policy id have is not in *)
(* it; and the slices taken in the opposite order give the same set.       *)
(***************************************************************************)
C20_KeysOfTwoPolicies ==
    (chart /\ QuotaEvidence) =>
        /\ quotaKeySet \subseteq LoadedKeys
        /\ \A k \in LoadedKeys :
               k \in quotaKeySet <=>
                   \E i \in SlicesWithKey(k) : \E j \in SlicesWithKey(k) :
                       allSlices[i].PolicyID # allSlices[j].PolicyID
        /\ buildQuotaKeySet(Reverse(allSlices)) = quotaKeySet

\* A load with evidence in which two limits rows of one policy have a key
\* that no other policy has: the key is not a quota-share key.
C20_Witness ==
    /\ chart /\ QuotaEvidence
    /\ \E k \in LoadedKeys :
          /\ Cardinality(SlicesWithKey(k)) > 1
          /\ k \notin quotaKeySet

(***************************************************************************)
(* Properties of the sweep and the merge (checked under Spec).             *)
(***************************************************************************)
\* The bounds of a bucket's slices.
BoundsOf(rows) ==
    {rows[i].xStartValue : i \in 1..Len(rows)} \cup {rows[i].xEndValue : i \in 1..Len(rows)}

\* The positions of the rows of a bucket that cover the interval [lo, hi).
CoveringRows(rows, lo, hi) ==
    {i \in 1..Len(rows) : rows[i].xStartValue < hi /\ rows[i].xEndValue > lo}

\* The sub-intervals between consecutive bounds that some row covers.
RawIntervals(rows) ==
    {r \in BoundsOf(rows) \X BoundsOf(rows) :
        /\ r[1] < r[2]
        /\ \A b \in BoundsOf(rows) : ~(r[1] < b /\ b < r[2])
        /\ CoveringRows(rows, r[1], r[2]) # {}}

\* How often each (policy id, limit) pair occurs among the rows covering r.
CoverSignature(rows, r) ==
    LET I == CoveringRows(rows, r[1], r[2])
        entries == {<<rows[i].PolicyID, rows[i].sliceLimit>> : i \in I}
    IN  [e \in entries |->
            Cardinality({i \in I : <<rows[i].PolicyID, rows[i].sliceLimit>> = e})]

RECURSIVE CoverLimit(_, _)
CoverLimit(rows, I) ==
    IF I = {} THEN 0
    ELSE LET i == CHOOSE n \in I : TRUE
         IN  rows[i].sliceLimit + CoverLimit(rows, I \ {i})

\* The slices of the bucket a point belongs to.
RowsOfPoint(g, pt) == SlicesOfBucket(datasets[g].label, pt.attach, pt.quotaGroupKey)

\* The points of dataset g in the bucket of point pt.
PointsOfBucket(g, pt) ==
    {q \in SeqRange(datasets[g].data) :
        q.attach = pt.attach /\ q.quotaGroupKey = pt.quotaGroupKey}

(***************************************************************************)
(* C21: in the annualized mode the points of a bucket are exactly its raw  *)
(* sub-intervals, and each lies within one calendar year.  Outside the     *)
(* annualized mode every raw sub-interval lies within one point of its     *)
(* bucket, and two raw sub-intervals that follow one another lie within    *)
(* the same point exactly when they touch, the same policies with the same *)
(* limits cover both and their summed limits are equal.                    *)
(***************************************************************************)
C21_AnnualizedRawElseMerged ==
    chart =>
        \A g \in DatasetIndex : \A n \in PointIndex(g) :
            LET pt == datasets[g].data[n]
                rows == RowsOfPoint(g, pt)
                raw == RawIntervals(rows)
                pts == PointsOfBucket(g, pt)
                Holder(r) == {q \in pts : q.xStart <= r[1] /\ r[2] <= q.xEnd}
            IN  /\ \A r \in raw : Cardinality(Holder(r)) = 1
                /\ <<pt.xStart, pt.xEnd>> \in
                       {<<r1[1], r2[2]>> : r1 \in raw, r2 \in raw}
                /\ filters.annualized =>
                       /\ <<pt.xStart, pt.xEnd>> \in raw
                       /\ getUTCFullYear(pt.xStart) = getUTCFullYear(pt.xEnd - 1)
                /\ ~filters.annualized =>
                       \A r1 \in raw : \A r2 \in raw :
                           (r1[2] <= r2[1] /\ \A r \in raw : ~(r1[2] <= r[1] /\ r[2] <= r2[1])) =>
                               (Holder(r1) = Holder(r2) <=>
                                   /\ r1[2] = r2[1]
                                   /\ CoverSignature(rows, r1) = CoverSignature(rows, r2)
                                   /\ CoverLimit(rows, CoveringRows(rows, r1[1], r1[2]))
                                        = CoverLimit(rows, CoveringRows(rows, r2[1], r2[2])))

\* In the annualized mode, two points of one bucket that touch at a year
\* boundary and have the same participants and summed limit.
C21_Witness ==
    /\ chart
    /\ filters.annualized
    /\ \E g \in DatasetIndex : \E i \in PointIndex(g) : \E j \in PointIndex(g) :
           LET pi == datasets[g].data[i]
               pj == datasets[g].data[j]
           IN  /\ pi.attach = pj.attach /\ pi.quotaGroupKey = pj.quotaGroupKey
               /\ pi.xEnd = pj.xStart
               /\ Signature(pi.participants) = Signature(pj.participants)
               /\ pi.sumLimit = pj.sumLimit

(***************************************************************************)
(* C22 as stated: the points of every dataset are in the order of their    *)
(* time start, and points with the same time start are in the order of     *)
(* their attachment points.                                                *)
(***************************************************************************)
C22_ByStartThenAttach ==
    chart =>
        \A g \in DatasetIndex : \A i \in PointIndex(g) : \A j \in PointIndex(g) :
            i < j =>
                LET a == datasets[g].data[i]
                    b == datasets[g].data[j]
                IN  \/ a.xStart < b.xStart
                    \/ a.xStart = b.xStart /\ a.attach <= b.attach

(***************************************************************************)
(* The order the points of a dataset do have: by time start, points with   *)
(* the same time start by time end, and points with the same time start    *)
(* and end by attachment point.                                            *)
(***************************************************************************)
PointsByStartEndThenAttach ==
    chart =>
        \A g \in DatasetIndex : \A i \in PointIndex(g) : \A j \in PointIndex(g) :
            i < j =>
                LET a == datasets[g].data[i]
                    b == datasets[g].data[j]
                IN  \/ a.xStart < b.xStart
                    \/ a.xStart = b.xStart /\ a.xEnd < b.xEnd
                    \/ a.xStart = b.xStart /\ a.xEnd = b.xEnd /\ a.attach <= b.attach

\* A dataset in which a point comes before a point of a lower layer that
\* starts at the same time and ends later.
EarlierEndHigherLayerFirst ==
    /\ chart
    /\ \E g \in DatasetIndex : \E i \in PointIndex(g) : \E j \in PointIndex(g) :
           /\ i < j
           /\ datasets[g].data[i].xStart = datasets[g].data[j].xStart
           /\ datasets[g].data[i].xEnd < datasets[g].data[j].xEnd
           /\ datasets[g].data[i].attach > datasets[g].data[j].attach

\* The pairs of rows of a bucket of which the first ends exactly where the
\* second begins.
TouchingPairs(rows) ==
    {ij \in (1..Len(rows)) \X (1..Len(rows)) :
        rows[ij[1]].xEndValue = rows[ij[2]].xStartValue}

(***************************************************************************)
(* C23: when a slice of a bucket ends exactly where another slice of the   *)
(* bucket begins, at no period inside any point of the bucket do both      *)
(* count: the point's participants and summed limit are those of the       *)
(* slices covering the period, which never include both, so the summed     *)
(* limit is less than a sum that holds both limits.                        *)
(***************************************************************************)
C23_TouchingSlicesNeverTogether ==
    chart =>
        \A g \in DatasetIndex : \A n \in PointIndex(g) :
            LET pt == datasets[g].data[n]
                rows == RowsOfPoint(g, pt)
            IN  \A ij \in TouchingPairs(rows) : \A t \in Periods(pt.xStart, pt.xEnd) :
                    LET cover == CoveringRows(rows, t, t + 1)
                    IN  /\ ~(ij[1] \in cover /\ ij[2] \in cover)
                        /\ Len(pt.participants) = Cardinality(cover)
                        /\ pt.sumLimit = CoverLimit(rows, cover)
                        /\ pt.sumLimit < CoverLimit(rows, cover \cup {ij[1], ij[2]})

\* A point that ends where a slice of another policy in its bucket begins,
\* and the point that begins there.
C23_Witness ==
    /\ chart
    /\ \E g \in DatasetIndex : \E n \in PointIndex(g) : \E m \in PointIndex(g) :
           LET pt == datasets[g].data[n]
               next == datasets[g].data[m]
               rows == RowsOfPoint(g, pt)
           IN  /\ next.attach = pt.attach /\ next.quotaGroupKey = pt.quotaGroupKey
               /\ next.xStart = pt.xEnd
               /\ \E ij \in TouchingPairs(rows) :
                      /\ rows[ij[1]].xEndValue = pt.xEnd
                      /\ rows[ij[1]].PolicyID # rows[ij[2]].PolicyID
                      /\ \E a \in 1..Len(pt.participants) :
                             pt.participants[a].pid = rows[ij[1]].PolicyID
                      /\ \E b \in 1..Len(next.participants) :
                             next.participants[b].pid = rows[ij[2]].PolicyID

(***************************************************************************)
(* C24: every point of every dataset, in every view, merged or annualized, *)
(* has at least one participant, participants with limits > 0, a summed    *)
(* limit > 0 and its top at attach + sumLimit, above its attachment point; *)
(* and every period inside a point is covered by a slice of its bucket, so *)
(* a stretch of time no slice of the bucket covers is in no point.         *)
(***************************************************************************)
C24_NoEmptySegment ==
    chart =>
        \A g \in DatasetIndex : \A n \in PointIndex(g) :
            LET pt == datasets[g].data[n]
                rows == RowsOfPoint(g, pt)
            IN  /\ Len(pt.participants) >= 1
                /\ \A a \in 1..Len(pt.participants) : pt.participants[a].sliceLimit > 0
                /\ pt.sumLimit > 0
                /\ pt.top = pt.attach + pt.sumLimit
                /\ pt.top > pt.attach
                /\ \A t \in Periods(pt.xStart, pt.xEnd) : CoveringRows(rows, t, t + 1) # {}

\* A bucket with a stretch of time none of its slices covers between two of
\* its points.
C24_Witness ==
    /\ chart
    /\ \E g \in DatasetIndex : \E n \in PointIndex(g) : \E m \in PointIndex(g) :
           LET pt == datasets[g].data[n]
               later == datasets[g].data[m]
               rows == RowsOfPoint(g, pt)
           IN  /\ later.attach = pt.attach /\ later.quotaGroupKey = pt.quotaGroupKey
               /\ pt.xEnd < later.xStart
               /\ \A t \in Periods(pt.xEnd, later.xStart) : CoveringRows(rows, t, t + 1) = {}

(***************************************************************************)
(* Properties of the filters (checked under SpecSetters).                  *)
(***************************************************************************)
\* The first and the last period of the range filter f; none when open.
RangeStart(f) ==
    IF f.startDate # NoFilterDate THEN f.startDate
    ELSE IF f.startYear # NoYear THEN f.startYear * YearLen
    ELSE 0

RangeEnd(f) ==
    IF f.endDate # NoFilterDate THEN f.endDate
    ELSE IF f.endYear # NoYear THEN (f.endYear * YearLen) + (YearLen - 1)
    ELSE LastPeriod

\* Slice sl passes the filter values f.
Passes(sl, f) ==
    /\ sl.policyStartMs <= RangeEnd(f) /\ sl.policyEndMs >= RangeStart(f)
    /\ f.insuranceProgram = "" \/ sl.insuranceProgram = f.insuranceProgram
    /\ f.policyLimitType = "" \/ sl.policyLimitType = f.policyLimitType

\* The filter values after a reset of the range, of the program and of the
\* limit type (which falls back to the default type of the load).
RangeCleared(f) ==
    [f EXCEPT !.startYear = NoYear, !.endYear = NoYear,
              !.startDate = NoFilterDate, !.endDate = NoFilterDate]

ProgramCleared(f) == [f EXCEPT !.insuranceProgram = ""]

LimitTypeCleared(f) == [f EXCEPT !.policyLimitType = DefaultPolicyLimitType(allSlices)]

ParticipantSelected(part, f) ==
    /\ f.carriers = {} \/ part.carrier \in f.carriers
    /\ f.carrierGroups = {} \/ part.carrierGroup \in f.carrierGroups

\* Every point of ds is highlighted exactly when the filter values f select
\* no entity or select one of its participants.
HighlightedAsSelected(ds, f) ==
    \A g \in 1..Len(ds) : \A i \in 1..Len(ds[g].data) :
        ds[g].data[i].isHighlighted <=>
            \/ f.carriers = {} /\ f.carrierGroups = {}
            \/ \E n \in 1..Len(ds[g].data[i].participants) :
                   ParticipantSelected(ds[g].data[i].participants[n], f)

\* Datasets da and db are the same up to the isHighlighted flags.
SameUpToHighlight(da, db) ==
    /\ Len(da) = Len(db)
    /\ \A g \in 1..Len(da) :
           /\ da[g].label = db[g].label
           /\ Len(da[g].data) = Len(db[g].data)
           /\ \A i \in 1..Len(da[g].data) :
                  [da[g].data[i] EXCEPT !.isHighlighted = TRUE]
                      = [db[g].data[i] EXCEPT !.isHighlighted = TRUE]

\* A step that changes the entity selection, no other filter value and not
\* the view.
EntitySelectionStep ==
    /\ chart
    /\ currentView' = currentView
    /\ filters' # filters
    /\ [filters' EXCEPT !.carriers = filters.carriers,
                        !.carrierGroups = filters.carrierGroups] = filters

(***************************************************************************)
(* C26: a step that changes the entity selection leaves the filtered       *)
(* slices and the year labels as they are and changes nothing of the       *)
(* datasets but isHighlighted flags; and in every state of a chart a point *)
(* is highlighted exactly when no entity is selected or one of its         *)
(* participants is of a selected carrier and of a selected carrier group.  *)
(***************************************************************************)
C26_EntitySelectionOnlyHighlights ==
    [][ /\ EntitySelectionStep =>
              /\ slices' = slices
              /\ xLabels' = xLabels
              /\ SameUpToHighlight(datasets, datasets')
        /\ chart' => HighlightedAsSelected(datasets', filters') ]_vars

\* A selection of a carrier and of a carrier group under which one point is
\* highlighted and another, whose participants match the group only, is not.
C26_Witness ==
    /\ chart
    /\ filters.carriers # {} /\ filters.carrierGroups # {}
    /\ \E g \in DatasetIndex : \E i \in PointIndex(g) : datasets[g].data[i].isHighlighted
    /\ \E g \in DatasetIndex : \E i \in PointIndex(g) :
           /\ ~datasets[g].data[i].isHighlighted
           /\ \E n \in 1..Len(datasets[g].data[i].participants) :
                  datasets[g].data[i].participants[n].carrierGroup \in filters.carrierGroups

(***************************************************************************)
(* Properties of the synthetic legend (checked under SpecLegend).          *)
(***************************************************************************)
\* Set S with the membership of v toggled.
Toggled(S, v) == IF v \in S THEN S \ {v} ELSE S \cup {v}

\* The hidden set the view looks at; none in the availability view.
HiddenOfView(view, hiddenCarriers, hiddenCarrierGroups) ==
    IF view = "carrier" THEN hiddenCarriers
    ELSE IF view = "carrierGroup" THEN hiddenCarrierGroups
    ELSE {}

\* The carrier (carrier group) a participant stands under in the view.
EntityOfView(view, part) ==
    IF view = "carrier" THEN part.carrier ELSE part.carrierGroup

(***************************************************************************)
(* C27: a step that changes a hidden set happens in the carrier or the     *)
(* carrier-group view, toggles one synthetic legend entry in the hidden    *)
(* set of that view, leaves the other hidden set alone and rebuilds; the   *)
(* entry is still there to be clicked, and toggling it again gives the     *)
(* hidden set and the datasets from before the step.  After every step no  *)
(* participant of any point, quota-share points included, is of a carrier  *)
(* (carrier group) in the hidden set of the current view, and the datasets *)
(* are those built with the other view's hidden set empty.                 *)
(***************************************************************************)
C27_LegendToggle ==
    [][ /\ << hiddenLegendCarriers', hiddenLegendCarrierGroups' >>
               # << hiddenLegendCarriers, hiddenLegendCarrierGroups >> =>
              /\ currentView \in CarrierViews /\ currentView' = currentView
              /\ currentView = "carrier" => hiddenLegendCarrierGroups' = hiddenLegendCarrierGroups
              /\ currentView = "carrierGroup" => hiddenLegendCarriers' = hiddenLegendCarriers
              /\ \E v \in SyntheticLegendValues(slices, currentView, datasets) :
                     /\ HiddenOfView(currentView, hiddenLegendCarriers',
                                     hiddenLegendCarrierGroups')
                          = Toggled(HiddenOfView(currentView, hiddenLegendCarriers,
                                                 hiddenLegendCarrierGroups), v)
                     /\ v \in SyntheticLegendValues(slices', currentView', datasets')
                     /\ Toggled(HiddenOfView(currentView, hiddenLegendCarriers',
                                             hiddenLegendCarrierGroups'), v)
                          = HiddenOfView(currentView, hiddenLegendCarriers,
                                         hiddenLegendCarrierGroups)
              /\ datasets' = buildDatasetsForView(slices, currentView, quotaKeySet, filters,
                                                  hiddenLegendCarriers',
                                                  hiddenLegendCarrierGroups')
              /\ datasets = buildDatasetsForView(slices', currentView', quotaKeySet', filters',
                                                 hiddenLegendCarriers,
                                                 hiddenLegendCarrierGroups)
        /\ chart' =>
              /\ \A g \in 1..Len(datasets') : \A i \in 1..Len(datasets'[g].data) :
                 \A n \in 1..Len(datasets'[g].data[i].participants) :
                     EntityOfView(currentView', datasets'[g].data[i].participants[n])
                         \notin HiddenOfView(currentView', hiddenLegendCarriers',
                                             hiddenLegendCarrierGroups')
              /\ datasets' =
                     buildDatasetsForView(
                         slices', currentView', quotaKeySet', filters',
                         IF currentView' = "carrier" THEN hiddenLegendCarriers' ELSE {},
                         IF currentView' = "carrierGroup" THEN hiddenLegendCarrierGroups'
                         ELSE {}) ]_vars

\* The carrier view with a hidden carrier whose slices are quota-share
\* slices, drawn without it, while a carrier group is hidden as well.
C27_Witness ==
    /\ chart
    /\ currentView = "carrier"
    /\ hiddenLegendCarrierGroups # {}
    /\ datasets # <<>>
    /\ \E i \in 1..Len(slices) :
           /\ slices[i].carrier \in hiddenLegendCarriers
           /\ quotaGroupKey(slices[i]) \in quotaKeySet


(***************************************************************************)
(* Overlapping loads                                                       *)
(***************************************************************************)
LiveInstances == {k \in 1..Len(instances) : ~instances[k].destroyed}

NoLoadPending == \A i \in 1..MaxCalls : calls[i].state # "pending"

SomeLoadDone == \E i \in 1..MaxCalls : calls[i].state = "done"

CompletionStep == \E i \in 1..MaxCalls : calls[i].state = "pending" /\ calls'[i].state = "done"

\* What the chart and the cache hold once no load is pending.
LastLoadHoldsChartAndCache ==
    (NoLoadPending /\ SomeLoadDone) =>
        LET last == instances[Len(instances)]
        IN  /\ chart
            /\ LiveInstances = {Len(instances)}
            /\ calls[last.call].state = "done"
            /\ allSlices = buildSlices(last.tables.rows)
            /\ quotaKeySet = QuotaKeySetOfLoad(last.tables.rows, last.tables.column, allSlices)
            /\ slices = FilteredSlices(allSlices, filters)

LoadedLimitTypes == {sl.policyLimitType : sl \in SeqRange(allSlices)} \ {""}

\* The type the spec gives an emptied limit-type filter.
IsStatedDefault(t) ==
    /\ t \in LoadedLimitTypes
    /\ ("Bodily Injury" \in LoadedLimitTypes) => t = "Bodily Injury"
    /\ \/ "Bodily Injury" \in LoadedLimitTypes
       \/ \A u \in LoadedLimitTypes : u = t \/ localeCompareLess(t, u)

\* C29: when the loaded slices have a limit type, the limit-type filter is
\* not empty after a load or a setter has applied the filters, and the
\* filtered slices are all of one limit type; a step of
\* setPolicyLimitTypeFilter("") or resetPolicyLimitTypeFilter leaves the
\* filter at "Bodily Injury" when that type is loaded and at the
\* alphabetically first loaded type otherwise.
C29_LimitTypeNeverEmpty ==
    [][ /\ (LoadedLimitTypes # {})' =>
              /\ filters'.policyLimitType # ""
              /\ \A a, b \in SeqRange(slices') : a.policyLimitType = b.policyLimitType
        /\ (LoadedLimitTypes # {} /\ (ResetPolicyLimitTypeFilter \/ SetPolicyLimitTypeFilter("")))
              => IsStatedDefault(filters'.policyLimitType) ]_vars

\* The tables hold "Property Damage" before "Products" and no bodily injury;
\* the filter is at "Products", and slices are shown.
C29_Witness ==
    /\ chart
    /\ LoadedLimitTypes = {"Products", "Property Damage"}
    /\ allSlices[1].policyLimitType = "Property Damage"
    /\ filters.policyLimitType = "Products"
    /\ slices # <<>>


(***************************************************************************)
(* The range filter                                                        *)
(***************************************************************************)
RangeActive == RangeCleared(filters) # filters

Kept(sl) == sl \in SeqRange(slices)

\* The policy of the slice has a period in the filter's range.
SpanMeetsRange(sl) ==
    \E t \in sl.policyStartMs..sl.policyEndMs : RangeStart(filters) <= t /\ t <= RangeEnd(filters)

PassesProgramAndType(sl) ==
    /\ filters.insuranceProgram = "" \/ sl.insuranceProgram = filters.insuranceProgram
    /\ filters.policyLimitType = "" \/ sl.policyLimitType = filters.policyLimitType

\* C30: with a year or date range set, a loaded slice of the selected
\* program and limit type is kept exactly when some period of its policy's
\* span lies in the range, whatever the slice's own year; the slices of one
\* policy are kept or dropped together; and when slices are kept the x
\* labels are the years from the smallest policy start year to the largest
\* policy end year among them, without a gap.
C30_RangeKeepsWholePolicies ==
    (chart /\ RangeActive) =>
        /\ \A sl \in SeqRange(allSlices) :
              /\ Kept(sl) => PassesProgramAndType(sl)
              /\ PassesProgramAndType(sl) => (Kept(sl) <=> SpanMeetsRange(sl))
        /\ \A a, b \in SeqRange(allSlices) : a.PolicyID = b.PolicyID => (Kept(a) <=> Kept(b))
        /\ slices # <<>> =>
              /\ \E a, b \in SeqRange(slices) :
                    /\ \A sl \in SeqRange(slices) :
                          /\ a.policyStartYear <= sl.policyStartYear
                          /\ sl.policyEndYear <= b.policyEndYear
                    /\ Len(xLabels) = b.policyEndYear - a.policyStartYear + 1
                    /\ xLabels[1] = a.policyStartYear
              /\ \A i \in 1..(Len(xLabels) - 1) : xLabels[i + 1] = xLabels[i] + 1

\* The range is the second year alone: a policy of both years is kept with
\* its slice of the first year, a policy of the first year and of the same
\* limit type is dropped, and the labels begin at the first year.
C30_Witness ==
    /\ chart
    /\ filters.startYear = 1 /\ filters.endYear = 1 /\ filters.startDate = NoFilterDate
    /\ \E sl \in SeqRange(slices) : sl.year = 0 /\ sl.policyEndYear = 1
    /\ \E sl \in SeqRange(allSlices) : PassesProgramAndType(sl) /\ ~Kept(sl)
    /\ xLabels = <<0, 1>>
====
